---- MODULE Spec2Model ----
(***************************************************************************)
(* Model of the page builders of the transaction analyzer                  *)
(* (src/src/views.py: home_page, events_page) and of the calendar helpers  *)
(* they use (src/src/utils.py).                                            *)
(*                                                                         *)
(* Conventions.                                                            *)
(*  - A datetime is a tuple <<year, month, day, hour, minute, second>>;    *)
(*    tuples are ordered lexicographically, as datetime objects are.       *)
(*    NaT (a date the loader could not parse) compares False with          *)
(*    everything.                                                          *)
(*  - A date string is a record [fmt, y, m, d, hh, mi, ss]: fmt = "iso"    *)
(*    is a text of the shape the format string expects, carrying the       *)
(*    numbers written in it (which may name no calendar day, such as       *)
(*    2023-02-29); fmt = "other" is any text of another shape; fmt =       *)
(*    "empty" is the empty text and fmt = "none" is None.                  *)
(*  - An amount is an integer number of 1/Scale rubles, so that amounts    *)
(*    with a fraction and the truncation int() are modelled exactly.       *)
(*  - A card id is a sequence of one-character strings (TLC has no string  *)
(*    slicing), a category is a string; NaNCard and NaNCategory stand for  *)
(*    a missing cell.                                                      *)
(*  - Strings of the source written in Cyrillic are transliterated        *)
(*    ("Perevody", "Nalichnye", "Ostalnoe", the greetings).                *)
(*  - The settings store and the quote provider are collaborators; they    *)
(*    are modelled by their interface: the variable world holds what they  *)
(*    answer (the settings, and whether each quote request succeeds).      *)
(***************************************************************************)
EXTENDS Integers, Sequences, FiniteSets, TLC

VARIABLES
    transactions,   \* the dataset handed to the page builders (a sequence of rows)
    world,          \* what the settings store and the quote provider answer
    call,           \* the arguments of the call of a page builder
    result,         \* the value that call returned
    consulted,      \* the collaborators that call consulted
    effects         \* the steps of persisting a report that call went through

vars == <<transactions, world, call, result, consulted, effects>>

\* ------------------------------------------------------------------------
\* Bounds of the model
\* ------------------------------------------------------------------------
\* Amounts are counted in 1/Scale rubles.
Scale == 4
\* Number of rows appended to a base dataset.
MaxRows == 2
\* Number of items a caller appends to a list it was handed.
MaxAppends == 2

\* ------------------------------------------------------------------------
\* Constants of src/src/views.py
\* ------------------------------------------------------------------------
CASHBACK_RATE_PERCENT == 1
TOP_TRANSACTIONS_COUNT == 5
TOP_CATEGORIES_COUNT == 7
WEEK_DAYS == 7
EARLIEST_YEAR == 2000
EARLIEST_MONTH == 1
EARLIEST_DAY == 1
DEFAULT_STATUS == "OK"
DEFAULT_GREETING == "Dobryj den"
PERIOD_WEEK == "W"
PERIOD_MONTH == "M"
PERIOD_YEAR == "Y"
PERIOD_ALL == "ALL"
PERIOD_CUSTOM == "CUSTOM"
CATEGORY_OTHER == "Ostalnoe"
CATEGORY_TRANSFERS == "Perevody"
CATEGORY_CASH == "Nalichnye"

\* ------------------------------------------------------------------------
\* Missing cells
\* ------------------------------------------------------------------------
NaT == <<0, 0, 0, 0, 0, 0>>
NaNCard == <<"NaN">>
NaNCategory == "<NaN>"
NoDate == [fmt |-> "none", y |-> 0, m |-> 0, d |-> 0, hh |-> 0, mi |-> 0, ss |-> 0]

\* ------------------------------------------------------------------------
\* Generic helpers
\* ------------------------------------------------------------------------
Min(a, b) == IF a <= b THEN a ELSE b

Abs(x) == IF x < 0 THEN -x ELSE x

Range(s) == {s[i] : i \in DOMAIN s}

RECURSIVE SumSeq(_)
SumSeq(s) == IF s = <<>> THEN 0 ELSE Head(s) + SumSeq(Tail(s))

\* ------------------------------------------------------------------------
\* The outcome of a computation: a value returned or an exception raised.
\* ------------------------------------------------------------------------
Returned(v) == [raised |-> FALSE, error |-> "", value |-> v]
Raised(name) == [raised |-> TRUE, error |-> name, value |-> [none |-> TRUE]]

\* ------------------------------------------------------------------------
\* The calendar of datetime (proleptic Gregorian)
\* ------------------------------------------------------------------------
IsLeap(y) == (y % 4 = 0) /\ ((y % 100 # 0) \/ (y % 400 = 0))

DaysInMonth(y, m) ==
    IF m = 2 THEN (IF IsLeap(y) THEN 29 ELSE 28)
    ELSE IF m \in {4, 6, 9, 11} THEN 30 ELSE 31

ValidDate(y, m, d) ==
    /\ y \in 1..9999
    /\ m \in 1..12
    /\ d \in 1..DaysInMonth(y, m)

ValidTime(hh, mi, ss) == hh \in 0..23 /\ mi \in 0..59 /\ ss \in 0..59

RECURSIVE DaysBeforeMonth(_, _)
DaysBeforeMonth(y, m) ==
    IF m = 1 THEN 0 ELSE DaysBeforeMonth(y, m - 1) + DaysInMonth(y, m - 1)

DaysBeforeYear(y) ==
    365 * (y - 1) + ((y - 1) \div 4) - ((y - 1) \div 100) + ((y - 1) \div 400)

\* date.toordinal(): 0001-01-01 is day 1.
ToOrdinal(y, m, d) == DaysBeforeYear(y) + DaysBeforeMonth(y, m) + d

\* date.fromordinal(): the calendar day with the given ordinal, looked for in
\* the two years around the guess.
FromOrdinal(n, guessYear) ==
    CHOOSE ymd \in {<<y, m, d>> : y \in {guessYear - 1, guessYear, guessYear + 1},
                                  m \in 1..12, d \in 1..31} :
        /\ ValidDate(ymd[1], ymd[2], ymd[3])
        /\ ToOrdinal(ymd[1], ymd[2], ymd[3]) = n

\* datetime - timedelta(days = n): the time of day is kept.
MinusDays(dt, n) ==
    LET ymd == FromOrdinal(ToOrdinal(dt[1], dt[2], dt[3]) - n, dt[1])
    IN  <<ymd[1], ymd[2], ymd[3], dt[4], dt[5], dt[6]>>

\* Lexicographic order of datetimes.
RECURSIVE LexLE(_, _, _)
LexLE(a, b, i) ==
    IF i > 6 THEN TRUE
    ELSE IF a[i] < b[i] THEN TRUE
    ELSE IF a[i] > b[i] THEN FALSE
    ELSE LexLE(a, b, i + 1)

\* column >= bound and column <= bound; a comparison with NaT is False.
DtGE(a, b) == a # NaT /\ b # NaT /\ LexLE(b, a, 1)
DtLE(a, b) == a # NaT /\ b # NaT /\ LexLE(a, b, 1)

\* Mutant of EndOfDay: the end of the range left at 00:00:00.
EndOfDayMidnight(dt) == <<dt[1], dt[2], dt[3], 0, 0, 0>>

\* Variant of EndOfDay: the range ends at the time given.
EndOfDayAsGiven(dt) == dt

\* datetime.replace(hour=23, minute=59, second=59)
EndOfDay(dt) == <<dt[1], dt[2], dt[3], 23, 59, 59>>

\* utils.get_month_start
get_month_start(dt) == <<dt[1], dt[2], 1, 0, 0, 0>>

\* datetime(y, m, d, hh, mi, ss): ValueError outside the calendar, whose
\* years are 1..9999.
MakeDatetime(y, m, d, hh, mi, ss) ==
    IF ValidDate(y, m, d) /\ ValidTime(hh, mi, ss)
    THEN Returned(<<y, m, d, hh, mi, ss>>)
    ELSE Raised("ValueError")

\* datetime - timedelta(seconds = n), the result inside the calendar.
MinusSeconds(dt, n) ==
    LET secs == 3600 * dt[4] + 60 * dt[5] + dt[6] - n
        ymd == FromOrdinal(ToOrdinal(dt[1], dt[2], dt[3]) + (secs \div 86400), dt[1])
        s == secs % 86400
    IN  <<ymd[1], ymd[2], ymd[3], s \div 3600, (s % 3600) \div 60, s % 60>>

\* utils.get_month_range: (month_start, month_end), or the exception of the
\* datetime constructor.
get_month_range(date) ==
    LET month_start == get_month_start(date)
        next_month_start ==
            IF date[2] = 12 THEN MakeDatetime(date[1] + 1, 1, 1, 0, 0, 0)
            ELSE MakeDatetime(date[1], date[2] + 1, 1, 0, 0, 0)
    IN  IF next_month_start.raised THEN next_month_start
        ELSE Returned(<<month_start, MinusSeconds(next_month_start.value, 1)>>)

\* utils.get_three_months_back: (period_start, period_end), or the exception
\* of get_month_range or of the datetime constructor.
get_three_months_back(date) ==
    LET range == get_month_range(date)
        start_year == IF date[2] <= 3 THEN date[1] - 1 ELSE date[1]
        start_month == IF date[2] <= 3 THEN date[2] + 9 ELSE date[2] - 3
        period_start == MakeDatetime(start_year, start_month, 1, 0, 0, 0)
    IN  IF range.raised THEN range
        ELSE IF period_start.raised THEN period_start
        ELSE Returned(<<period_start.value, range.value[2]>>)

\* utils.format_date: the text DD.MM.YYYY, as its three fields.
format_date(dt) == <<dt[3], dt[2], dt[1]>>

\* datetime.strptime(s, "%Y-%m-%d"): succeeds on a text of that shape that
\* names a calendar day.
StrpDate(s) ==
    IF s.fmt = "iso" /\ ValidDate(s.y, s.m, s.d)
    THEN [ok |-> TRUE, dt |-> <<s.y, s.m, s.d, 0, 0, 0>>]
    ELSE [ok |-> FALSE, dt |-> NaT]

\* datetime.strptime(s, "%Y-%m-%d %H:%M:%S")
StrpDateTime(s) ==
    IF s.fmt = "iso" /\ ValidDate(s.y, s.m, s.d) /\ ValidTime(s.hh, s.mi, s.ss)
    THEN [ok |-> TRUE, dt |-> <<s.y, s.m, s.d, s.hh, s.mi, s.ss>>]
    ELSE [ok |-> FALSE, dt |-> NaT]

\* ------------------------------------------------------------------------
\* events_page: the period window (views.py 323-371)
\* ------------------------------------------------------------------------
\* The outcome of the window computation: a window, or the exception raised.
WindowOf(start, end) == [ok |-> TRUE, error |-> "", start |-> start, end |-> end]
WindowError(name) == [ok |-> FALSE, error |-> name, start |-> NaT, end |-> NaT]

\* What strptime raises on an argument that does not parse: TypeError on
\* None, ValueError on a text.
StrpError(s) == IF s.fmt = "none" THEN "TypeError" ELSE "ValueError"

\* Mutant of PeriodStart: the week reaches back WEEK_DAYS days.
PeriodStartFullWeek(current_date, period) ==
    IF period = PERIOD_WEEK THEN MinusDays(current_date, WEEK_DAYS)
    ELSE IF period = PERIOD_MONTH THEN get_month_start(current_date)
    ELSE IF period = PERIOD_YEAR THEN <<current_date[1], 1, 1, 0, 0, 0>>
    ELSE <<EARLIEST_YEAR, EARLIEST_MONTH, EARLIEST_DAY, 0, 0, 0>>

\* Variant of PeriodStart: the year reaches back 365 days.
PeriodStartRollingYear(current_date, period) ==
    IF period = PERIOD_WEEK THEN MinusDays(current_date, WEEK_DAYS - 1)
    ELSE IF period = PERIOD_MONTH THEN get_month_start(current_date)
    ELSE IF period = PERIOD_YEAR THEN MinusDays(current_date, 365)
    ELSE <<EARLIEST_YEAR, EARLIEST_MONTH, EARLIEST_DAY, 0, 0, 0>>

\* The start of the window of a standard period.
PeriodStart(current_date, period) ==
    IF period = PERIOD_WEEK THEN MinusDays(current_date, WEEK_DAYS - 1)
    ELSE IF period = PERIOD_MONTH THEN get_month_start(current_date)
    ELSE IF period = PERIOD_YEAR THEN <<current_date[1], 1, 1, 0, 0, 0>>
    ELSE <<EARLIEST_YEAR, EARLIEST_MONTH, EARLIEST_DAY, 0, 0, 0>>

ResolveWindow(date, period, start_date, end_date) ==
    IF period = PERIOD_CUSTOM
    THEN IF start_date.fmt \in {"none", "empty"} \/ end_date.fmt \in {"none", "empty"}
         THEN WindowError("ValueError")
         ELSE IF StrpDate(start_date).ok /\ StrpDate(end_date).ok
              THEN WindowOf(StrpDate(start_date).dt, EndOfDay(StrpDate(end_date).dt))
              ELSE WindowError("ValueError")
    ELSE IF ~StrpDate(date).ok
         THEN WindowError(StrpError(date))
         ELSE IF period \in {PERIOD_WEEK, PERIOD_MONTH, PERIOD_YEAR, PERIOD_ALL}
              THEN WindowOf(PeriodStart(StrpDate(date).dt, period),
                            EndOfDay(StrpDate(date).dt))
              ELSE WindowError("ValueError")

\* ------------------------------------------------------------------------
\* Filtering (views.py 169-174, 389-407)
\* ------------------------------------------------------------------------
\* Mutant of InRangeOK: the status is not looked at.
InRangeAnyStatus(r, date_range_start, date_range_end) ==
    /\ DtGE(r.date, date_range_start)
    /\ DtLE(r.date, date_range_end)

\* The mask of the date range and status filter, for one row.
InRangeOK(r, date_range_start, date_range_end) ==
    /\ DtGE(r.date, date_range_start)
    /\ DtLE(r.date, date_range_end)
    /\ r.status = "OK"

FilterRangeStatus(df, date_range_start, date_range_end) ==
    SelectSeq(df, LAMBDA r : InRangeOK(r, date_range_start, date_range_end))

\* str(card): a missing cell prints as "nan".
CardStr(card) == IF card = NaNCard THEN <<"n", "a", "n">> ELSE card

\* card_str.replace("*", "")
StripStars(s) == SelectSeq(s, LAMBDA c : c # "*")

\* s[-4:]
Last4(s) == IF Len(s) >= 4 THEN SubSeq(s, Len(s) - 3, Len(s)) ELSE s

\* Variant of matches_card: the last four characters of the id as written,
\* its '*' included.
MatchesCardNoStrip(card_str, card_filter) == Last4(CardStr(card_str)) = card_filter

\* events_page.matches_card
matches_card(card_str, card_filter) ==
    LET card_clean == StripStars(CardStr(card_str))
        last_digits == IF Len(card_clean) >= 4
                       THEN SubSeq(card_clean, Len(card_clean) - 3, Len(card_clean))
                       ELSE card_clean
    IN  last_digits = card_filter

\* if card_filter: df_filtered[df_filtered[card].apply(matches_card)]
FilterCard(df, card_filter) ==
    IF card_filter # <<>>
    THEN SelectSeq(df, LAMBDA r : matches_card(r.card, card_filter))
    ELSE df

\* ------------------------------------------------------------------------
\* Sums, groups and sorting
\* ------------------------------------------------------------------------
RECURSIVE SumAmounts(_)
SumAmounts(df) == IF df = <<>> THEN 0 ELSE Head(df).amount + SumAmounts(Tail(df))

\* Series.sum() of the amount column (views.py 416, 459): the doubles of the
\* column added in row order. The amounts of the model are decimal, those of
\* the program are binary doubles, and the sum of three or more doubles can
\* come out just below a whole decimal sum when some addend has a fraction:
\* ((-14.32 + -4.68) + -12.01) + -0.99 is -31.999999999999996. Whether it
\* does depends on the digits the amounts of the dataset stand for, which
\* short tells. The double just below a whole number is written as that
\* number less 1/Scale, which int() cuts to the same integer. The sum of a
\* group (groupby().sum(), added with compensation) is taken as exact.
SeriesSum(df, short) ==
    LET s == SumAmounts(df)
    IN  IF /\ short
           /\ Len(df) >= 3
           /\ s # 0
           /\ s % Scale = 0
           /\ \E i \in DOMAIN df : df[i].amount % Scale # 0
        THEN IF s > 0 THEN s - 1 ELSE s + 1
        ELSE s

\* Variant of IntTrunc: rounds half away from zero instead of cutting.
IntRound(x) ==
    IF x >= 0 THEN (2 * x + Scale) \div (2 * Scale)
    ELSE -((2 * (-x) + Scale) \div (2 * Scale))

\* int(x): truncation towards zero of an amount of x/Scale rubles.
IntTrunc(x) == IF x >= 0 THEN x \div Scale ELSE -((-x) \div Scale)

\* df.groupby("category")[amount].sum(): one key per category present, rows
\* with a missing category dropped.
GroupByCategory(df) ==
    [c \in {r.category : r \in Range(df)} \ {NaNCategory} |->
        SumAmounts(SelectSeq(df, LAMBDA r : r.category = c))]

\* series.abs()
AbsSeries(f) == [c \in DOMAIN f |-> Abs(f[c])]

\* series.sort_values(ascending=False): the keys in non-increasing order of
\* value. The default sort is not stable, so keys of equal value come in any
\* order: the set of the orders it may produce.
RECURSIVE DescOrders(_, _)
DescOrders(f, S) ==
    IF S = {} THEN {<<>>}
    ELSE LET tops == {c \in S : \A e \in S : f[c] >= f[e]}
         IN  UNION {{<<c>> \o t : t \in DescOrders(f, S \ {c})} : c \in tops}

SortValuesDesc(f) == DescOrders(f, DOMAIN f)

\* ------------------------------------------------------------------------
\* events_page: the category rollup (views.py 411-470)
\* ------------------------------------------------------------------------
Entry(category, amount) == [category |-> category, amount |-> amount]

\* Variant of the loop below that does not skip transfers and cash.
RECURSIVE MainLoopNoSkip(_, _, _)
MainLoopNoSkip(order, f, st) ==
    IF order = <<>> THEN st
    ELSE LET category == Head(order)
             next ==
                 IF st.count < TOP_CATEGORIES_COUNT
                 THEN [main |-> Append(st.main, Entry(category, f[category] \div Scale)),
                       count |-> st.count + 1,
                       other |-> st.other]
                 ELSE [st EXCEPT !.other = st.other + f[category]]
         IN  MainLoopNoSkip(Tail(order), f, next)

\* Variant of the loop below that lists one category more.
RECURSIVE MainLoopCapEight(_, _, _)
MainLoopCapEight(order, f, st) ==
    IF order = <<>> THEN st
    ELSE LET category == Head(order)
             next ==
                 IF category \in {CATEGORY_TRANSFERS, CATEGORY_CASH} THEN st
                 ELSE IF st.count <= TOP_CATEGORIES_COUNT
                      THEN [main |-> Append(st.main, Entry(category, f[category] \div Scale)),
                            count |-> st.count + 1,
                            other |-> st.other]
                      ELSE [st EXCEPT !.other = st.other + f[category]]
         IN  MainLoopCapEight(Tail(order), f, next)

\* Variant of the loop below that forgets the categories past the cap.
RECURSIVE MainLoopDropsRest(_, _, _)
MainLoopDropsRest(order, f, st) ==
    IF order = <<>> THEN st
    ELSE LET category == Head(order)
             next ==
                 IF category \in {CATEGORY_TRANSFERS, CATEGORY_CASH} THEN st
                 ELSE IF st.count < TOP_CATEGORIES_COUNT
                      THEN [main |-> Append(st.main, Entry(category, f[category] \div Scale)),
                            count |-> st.count + 1,
                            other |-> st.other]
                      ELSE st
         IN  MainLoopDropsRest(Tail(order), f, next)

\* The loop over expenses_by_category.items(): st is [main, count, other].
RECURSIVE MainLoop(_, _, _)
MainLoop(order, f, st) ==
    IF order = <<>> THEN st
    ELSE LET category == Head(order)
             next ==
                 IF category \in {CATEGORY_TRANSFERS, CATEGORY_CASH} THEN st
                 ELSE IF st.count < TOP_CATEGORIES_COUNT
                      THEN [main |-> Append(st.main, Entry(category, IntTrunc(f[category]))),
                            count |-> st.count + 1,
                            other |-> st.other]
                      ELSE [st EXCEPT !.other = st.other + f[category]]
         IN  MainLoop(Tail(order), f, next)

MainCategories(order, f) ==
    LET st == MainLoop(order, f, [main |-> <<>>, count |-> 0, other |-> 0])
    IN  IF st.other > 0
        THEN Append(st.main, Entry(CATEGORY_OTHER, IntTrunc(st.other)))
        ELSE st.main

\* The loop over [CATEGORY_TRANSFERS, CATEGORY_CASH].
RECURSIVE TransfersLoop(_, _)
TransfersLoop(cats, f) ==
    IF cats = <<>> THEN <<>>
    ELSE IF Head(cats) \in DOMAIN f
         THEN <<Entry(Head(cats), IntTrunc(Abs(f[Head(cats)])))>> \o TransfersLoop(Tail(cats), f)
         ELSE TransfersLoop(Tail(cats), f)

TransfersAndCash(f) == TransfersLoop(<<CATEGORY_TRANSFERS, CATEGORY_CASH>>, f)

\* Variant of IncomeMain capped like the expense categories.
IncomeMainCapped(order, f) ==
    [i \in 1..Min(Len(order), TOP_CATEGORIES_COUNT) |->
        Entry(order[i], f[order[i]] \div Scale)]

IncomeMain(order, f) == [i \in DOMAIN order |-> Entry(order[i], IntTrunc(f[order[i]]))]

ExpensesDf(df) == SelectSeq(df, LAMBDA r : r.amount < 0)
IncomeDf(df) == SelectSeq(df, LAMBDA r : r.amount > 0)

ExpensesTotal(df, short) == IntTrunc(Abs(SeriesSum(ExpensesDf(df), short)))
IncomeTotal(df, short) == IntTrunc(SeriesSum(IncomeDf(df), short))

\* The expenses and income parts of the result, for each order the two sorts
\* may produce.
EventsAggregates(df, short) ==
    LET expenses_by_category == AbsSeries(GroupByCategory(ExpensesDf(df)))
        income_by_category == GroupByCategory(IncomeDf(df))
    IN  {[expenses |-> [total_amount |-> ExpensesTotal(df, short),
                        main |-> MainCategories(oe, expenses_by_category),
                        transfers_and_cash |-> TransfersAndCash(expenses_by_category)],
          income |-> [total_amount |-> IncomeTotal(df, short),
                      main |-> IncomeMain(oi, income_by_category)]] :
            oe \in SortValuesDesc(expenses_by_category),
            oi \in SortValuesDesc(income_by_category)}

\* ------------------------------------------------------------------------
\* home_page: cards and top transactions (views.py 178-247)
\* ------------------------------------------------------------------------
\* Variant of get_greeting: the morning one hour longer.
GetGreetingLongMorning(hour) ==
    IF 5 <= hour /\ hour <= 12 THEN "Dobroe utro"
    ELSE IF 12 <= hour /\ hour < 17 THEN "Dobryj den"
    ELSE IF 17 <= hour /\ hour < 22 THEN "Dobryj vecher"
    ELSE "Dobroj nochi"

get_greeting(hour) ==
    IF 5 <= hour /\ hour < 12 THEN "Dobroe utro"
    ELSE IF 12 <= hour /\ hour < 17 THEN "Dobryj den"
    ELSE IF 17 <= hour /\ hour < 22 THEN "Dobryj vecher"
    ELSE "Dobroj nochi"

\* Code points of the characters of card ids.
Chars == <<"*", "0", "1", "2", "3", "4", "5", "6", "7", "8", "9", "a", "n">>
Ord(c) == CHOOSE i \in DOMAIN Chars : Chars[i] = c

\* Order of strings: s < t.
RECURSIVE StrLess(_, _)
StrLess(s, t) ==
    IF t = <<>> THEN FALSE
    ELSE IF s = <<>> THEN TRUE
    ELSE IF Ord(Head(s)) < Ord(Head(t)) THEN TRUE
    ELSE IF Ord(Head(s)) > Ord(Head(t)) THEN FALSE
    ELSE StrLess(Tail(s), Tail(t))

\* The keys of df.groupby(card), in ascending order; a missing card is
\* dropped.
RECURSIVE SortedKeys(_)
SortedKeys(S) ==
    IF S = {} THEN <<>>
    ELSE LET k == CHOOSE x \in S : \A y \in S \ {x} : StrLess(x, y)
         IN  <<k>> \o SortedKeys(S \ {k})

GroupKeysByCard(df) == SortedKeys({r.card : r \in Range(df)} \ {NaNCard})

\* round(n / d) to the nearest integer, a tie going to the even neighbour
\* (d > 0).
RoundHalfEven(n, d) ==
    LET q == n \div d
        r == n % d
    IN  IF 2 * r < d THEN q
        ELSE IF 2 * r > d THEN q + 1
        ELSE IF q % 2 = 0 THEN q ELSE q + 1

\* round(x, 2) of an amount of x/Scale rubles, in hundredths of a ruble.
Round2(x) == RoundHalfEven(x * 100, Scale)

\* round(total_spent * CASHBACK_RATE, 2) in hundredths of a ruble. The
\* product is a binary floating-point number: when the exact product lies
\* half-way between two hundredths, the nearest float may lie on either side
\* of it, and round() follows the float.
CashbackOutcomes(total_spent) ==
    LET n == total_spent * CASHBACK_RATE_PERCENT
        q == n \div Scale
        r == n % Scale
    IN  IF 2 * r = Scale THEN {q, q + 1} ELSE {RoundHalfEven(n, Scale)}

\* The entries one card group may give.
CardEntries(df, card) ==
    LET group == SelectSeq(df, LAMBDA r : r.card = card)
        total_spent == Abs(SumAmounts(ExpensesDf(group)))
    IN  {[last_digits |-> Last4(StripStars(CardStr(card))),
          total_spent |-> Round2(total_spent),
          cashback |-> cb] : cb \in CashbackOutcomes(total_spent)}

RECURSIVE CardsLoop(_, _)
CardsLoop(df, keys) ==
    IF keys = <<>> THEN {<<>>}
    ELSE {<<e>> \o rest : e \in CardEntries(df, Head(keys)),
                          rest \in CardsLoop(df, Tail(keys))}

\* Variant of SortCardsDesc: an ascending sort then reversed, which turns the
\* cards of equal total_spent around.
RECURSIVE SortCardsReversed(_)
SortCardsReversed(cards) ==
    IF cards = <<>> THEN <<>>
    ELSE LET i == CHOOSE j \in DOMAIN cards :
                      /\ \A k \in DOMAIN cards : cards[j].total_spent >= cards[k].total_spent
                      /\ \A k \in (j + 1)..Len(cards) : cards[k].total_spent < cards[j].total_spent
         IN  <<cards[i]>> \o
             SortCardsReversed(SubSeq(cards, 1, i - 1) \o SubSeq(cards, i + 1, Len(cards)))

\* list.sort(key = total_spent, reverse = True): a stable sort.
RECURSIVE SortCardsDesc(_)
SortCardsDesc(cards) ==
    IF cards = <<>> THEN <<>>
    ELSE LET i == CHOOSE j \in DOMAIN cards :
                      /\ \A k \in DOMAIN cards : cards[j].total_spent >= cards[k].total_spent
                      /\ \A k \in 1..(j - 1) : cards[k].total_spent < cards[j].total_spent
         IN  <<cards[i]>> \o
             SortCardsDesc(SubSeq(cards, 1, i - 1) \o SubSeq(cards, i + 1, Len(cards)))

CardsData(df) == {SortCardsDesc(cards) : cards \in CardsLoop(df, GroupKeysByCard(df))}

\* str(category): a missing cell prints as "nan".
CategoryStr(category) == IF category = NaNCategory THEN "nan" ELSE category

TopEntry(r) ==
    [date |-> format_date(r.date),
     amount |-> Round2(r.amount),
     category |-> CategoryStr(r.category),
     description |-> r.description]

\* Variant of TopTransactions: the largest expenses only.
TopExpensesOnly(df) ==
    LET ex == SelectSeq(df, LAMBDA r : r.amount < 0)
        abs_amount == [i \in DOMAIN ex |-> Abs(ex[i].amount)]
    IN  {[k \in 1..Min(TOP_TRANSACTIONS_COUNT, Len(order)) |-> TopEntry(ex[order[k]])] :
            order \in DescOrders(abs_amount, DOMAIN ex)}

\* df.sort_values("abs_amount", ascending=False).head(5), one entry per row.
TopTransactions(df) ==
    LET abs_amount == [i \in DOMAIN df |-> Abs(df[i].amount)]
    IN  {[k \in 1..Min(TOP_TRANSACTIONS_COUNT, Len(order)) |-> TopEntry(df[order[k]])] :
            order \in SortValuesDesc(abs_amount)}

\* ------------------------------------------------------------------------
\* The collaborators: settings store and quote provider
\* ------------------------------------------------------------------------
\* load_user_settings(): the settings, the keys a .get() misses being [].
load_user_settings(w) == w.settings

\* get_currency_rates(currencies), get_stock_prices(stocks): the quotes of
\* the symbols asked for, or [] on a failure.
get_currency_rates(currencies, w) ==
    IF w.rates_up
    THEN [i \in DOMAIN currencies |-> [currency |-> currencies[i], rate |-> 7321]]
    ELSE <<>>
get_stock_prices(stocks, w) ==
    IF w.stocks_up
    THEN [i \in DOMAIN stocks |-> [stock |-> stocks[i], price |-> 15012]]
    ELSE <<>>

\* The external data of one call of a page builder (views.py 249-255,
\* 472-478).
ExternalData(w) ==
    LET settings == load_user_settings(w)
        user_currencies == settings.user_currencies
        user_stocks == settings.user_stocks
    IN  [currency_rates |-> IF user_currencies # <<>>
                            THEN get_currency_rates(user_currencies, w) ELSE <<>>,
         stock_prices |-> IF user_stocks # <<>>
                          THEN get_stock_prices(user_stocks, w) ELSE <<>>]

\* The collaborators one pass over views.py 249-255, 472-478 calls.
ConsultedBy(w) ==
    LET settings == load_user_settings(w)
    IN  {"load_user_settings"}
        \cup (IF settings.user_currencies # <<>> THEN {"get_currency_rates"} ELSE {})
        \cup (IF settings.user_stocks # <<>> THEN {"get_stock_prices"} ELSE {})

\* ------------------------------------------------------------------------
\* The page builders
\* ------------------------------------------------------------------------
EmptyEvents ==
    [expenses |-> [total_amount |-> 0, main |-> <<>>, transfers_and_cash |-> <<>>],
     income |-> [total_amount |-> 0, main |-> <<>>],
     currency_rates |-> <<>>,
     stock_prices |-> <<>>]

EmptyHome(greeting) ==
    [greeting |-> greeting,
     cards |-> <<>>,
     top_transactions |-> <<>>,
     currency_rates |-> <<>>,
     stock_prices |-> <<>>]

\* Variant of events_page_try without the early return on an empty dataset.
EventsTryNoEmptyCheck(df, w, date, period, start_date, end_date, card_filter) ==
    LET window == ResolveWindow(date, period, start_date, end_date)
    IN  IF ~window.ok THEN {Raised(window.error)}
        ELSE LET df_filtered == FilterCard(FilterRangeStatus(df, window.start, window.end), card_filter)
             IN  {Returned([expenses |-> a.expenses,
                            income |-> a.income,
                            currency_rates |-> ExternalData(w).currency_rates,
                            stock_prices |-> ExternalData(w).stock_prices]) :
                     a \in EventsAggregates(df_filtered, w.short)}

\* The body of the try block of events_page (views.py 323-496).
events_page_try(df, w, date, period, start_date, end_date, card_filter) ==
    LET window == ResolveWindow(date, period, start_date, end_date)
    IN  IF ~window.ok THEN {Raised(window.error)}
        ELSE IF df = <<>> THEN {Returned(EmptyEvents)}
        ELSE LET df_filtered == FilterCard(FilterRangeStatus(df, window.start, window.end), card_filter)
             IN  {Returned([expenses |-> a.expenses,
                            income |-> a.income,
                            currency_rates |-> ExternalData(w).currency_rates,
                            stock_prices |-> ExternalData(w).stock_prices]) :
                     a \in EventsAggregates(df_filtered, w.short)}

\* Mutant of EventsHandler: only ValueError is caught.
EventsHandlerValueError(o) ==
    IF o.raised /\ o.error = "ValueError" THEN Returned(EmptyEvents) ELSE o

\* except Exception: the empty structure (views.py 498-507).
EventsHandler(o) == IF o.raised THEN Returned(EmptyEvents) ELSE o

events_page(df, w, date, period, start_date, end_date, card_filter) ==
    {EventsHandler(o) :
        o \in events_page_try(df, w, date, period, start_date, end_date, card_filter)}

\* The body of the try block of home_page (views.py 141-267).
home_page_try(df, w, date_time) ==
    LET p == StrpDateTime(date_time)
        current_datetime == p.dt
        date_range_start == get_month_start(current_datetime)
        date_range_end == EndOfDay(current_datetime)
    IN  IF ~p.ok THEN {Raised(StrpError(date_time))}
        ELSE IF df = <<>> THEN {Returned(EmptyHome(get_greeting(current_datetime[4])))}
        ELSE LET df_filtered == FilterRangeStatus(df, date_range_start, date_range_end)
             IN  {Returned([greeting |-> get_greeting(current_datetime[4]),
                            cards |-> c,
                            top_transactions |-> t,
                            currency_rates |-> ExternalData(w).currency_rates,
                            stock_prices |-> ExternalData(w).stock_prices]) :
                     c \in CardsData(df_filtered),
                     t \in TopTransactions(df_filtered)}

\* except Exception: the greeting of the hour if the date parses after all,
\* the default greeting otherwise, and empty lists (views.py 269-285).
HomeHandler(o, date_time) ==
    IF o.raised
    THEN Returned(EmptyHome(IF StrpDateTime(date_time).ok
                            THEN get_greeting(StrpDateTime(date_time).dt[4])
                            ELSE DEFAULT_GREETING))
    ELSE o

home_page(df, w, date_time) ==
    {HomeHandler(o, date_time) : o \in home_page_try(df, w, date_time)}

\* The collaborators a call consults: none when the call raises before
\* views.py 472 / 250 or returns early on an empty dataset, those of one
\* pass otherwise.
events_page_consults(df, w, date, period, start_date, end_date) ==
    IF ~ResolveWindow(date, period, start_date, end_date).ok \/ df = <<>>
    THEN {} ELSE ConsultedBy(w)

home_page_consults(df, w, date_time) ==
    IF ~StrpDateTime(date_time).ok \/ df = <<>> THEN {} ELSE ConsultedBy(w)

\* ------------------------------------------------------------------------
\* Actions: the caller calls a page builder once on the dataset. A page
\* builder keeps nothing from one call to the next, so one call per
\* behaviour reaches every result.
\* ------------------------------------------------------------------------
NoCall ==
    [fn |-> "none", date |-> NoDate, period |-> "", start_date |-> NoDate,
     end_date |-> NoDate, card_filter |-> <<>>]

\* ------------------------------------------------------------------------
\* The data frames a handler writes to. A frame is named by the way it was
\* made from the dataset passed in: the dataset itself, or a copy of a frame.
\* ------------------------------------------------------------------------
Source == <<"transactions">>

\* A copy that is the very frame copied.
CopySameObject(frame) == frame

\* frame.copy(), and the selection frame[mask].copy()
Copy(frame) == frame \o <<"copy">>

\* The column assignments of a handler, each with the frame assigned to, as
\* if every one of them were reached: home_page writes abs_amount to a copy
\* of its filtered copy (views.py 170-174, 211-212), events_page writes no
\* column (390-413), the reports write to their copy of the dataset
\* (reports.py 190-215, 272-294, 352-375).
ColumnWrites(fn) ==
    IF fn = "home_page" THEN {[frame |-> Copy(Copy(Source)), column |-> "abs_amount"]}
    ELSE IF fn = "events_page" THEN {}
    ELSE IF fn = "spending_by_category"
    THEN {[frame |-> Copy(Source), column |-> c] : c \in {"Data operacii", "mesyac"}}
    ELSE IF fn = "spending_by_weekday"
    THEN {[frame |-> Copy(Source), column |-> c] : c \in {"Data operacii", "den_nedeli"}}
    ELSE {[frame |-> Copy(Source), column |-> c] :
             c \in {"Data operacii", "day_of_week", "tip_dnya"}}

\* The dataset passed in after the handler has run: the columns assigned to
\* the dataset itself are written into its rows.
SourceAfter(fn, df) ==
    LET columns == {w.column : w \in {x \in ColumnWrites(fn) : x.frame = Source}}
    IN  IF columns = {} THEN df
        ELSE [i \in DOMAIN df |-> df[i] @@ [c \in columns |-> "written"]]

EventsPage(date, period, start_date, end_date, card_filter) ==
    /\ call = NoCall
    /\ \E o \in events_page(transactions, world, date, period, start_date, end_date,
                             card_filter) :
           result' = o
    /\ call' = [fn |-> "events_page", date |-> date, period |-> period,
                start_date |-> start_date, end_date |-> end_date,
                card_filter |-> card_filter]
    /\ consulted' = events_page_consults(transactions, world, date, period,
                                         start_date, end_date)
    /\ transactions' = SourceAfter("events_page", transactions)
    /\ UNCHANGED <<world, effects>>

HomePage(date_time) ==
    /\ call = NoCall
    /\ \E o \in home_page(transactions, world, date_time) : result' = o
    /\ call' = [fn |-> "home_page", date |-> date_time, period |-> "",
                start_date |-> NoDate, end_date |-> NoDate, card_filter |-> <<>>]
    /\ consulted' = home_page_consults(transactions, world, date_time)
    /\ transactions' = SourceAfter("home_page", transactions)
    /\ UNCHANGED <<world, effects>>

\* ------------------------------------------------------------------------
\* The reports (reports.py)
\* ------------------------------------------------------------------------
WORKDAY == "rabochij"
WEEKEND == "vyhodnoj"
WORKDAY_START == 0
WORKDAY_END == 4

\* Timestamp.dayofweek: Monday is 0, Sunday 6.
DayOfWeek(dt) == (ToOrdinal(dt[1], dt[2], dt[3]) + 6) % 7

RECURSIVE Gcd(_, _)
Gcd(a, b) == IF b = 0 THEN a ELSE Gcd(b, a % b)

\* Series.mean().abs() of count amounts of sum total: the fraction
\* |total| / count in lowest terms, in 1/Scale rubles.
MeanAbs(total, count) ==
    LET g == Gcd(Abs(total), count)
    IN  [num |-> Abs(total) \div g, den |-> count \div g]

\* The reference date of a report: the date given, or the clock's when none
\* is given (reports.py 176-184).
ReportDate(date, w) ==
    IF date.fmt \in {"none", "empty"} THEN [ok |-> TRUE, dt |-> w.now] ELSE StrpDate(date)

\* The rows a report keeps: inside the period, of amount < 0
\* (reports.py 203-208, 282-287, 362-367).
InPeriodExpense(r, period_start, period_end) ==
    /\ DtGE(r.date, period_start)
    /\ DtLE(r.date, period_end)
    /\ r.amount < 0

\* The keys of a groupby in ascending order, rank giving the rank of each.
RECURSIVE SortedBy(_, _)
SortedBy(S, rank) ==
    IF S = {} THEN <<>>
    ELSE LET k == CHOOSE x \in S : \A y \in S : rank[x] <= rank[y]
         IN  <<k>> \o SortedBy(S \ {k}, rank)

\* groupby("mesyac")[amount].sum().abs(): one row per month present.
ByMonth(df) ==
    LET keys == {<<r.date[1], r.date[2]>> : r \in Range(df)}
        months == SortedBy(keys, [k \in keys |-> 12 * k[1] + k[2]])
    IN  [i \in DOMAIN months |->
            [month |-> months[i],
             amount |-> Abs(SumAmounts(SelectSeq(df,
                            LAMBDA r : <<r.date[1], r.date[2]>> = months[i])))]]

\* groupby(weekday)[amount].mean().abs(): one row per weekday present.
ByWeekday(df) ==
    LET keys == {DayOfWeek(r.date) : r \in Range(df)}
        days == SortedBy(keys, [k \in keys |-> k])
    IN  [i \in DOMAIN days |->
            LET group == SelectSeq(df, LAMBDA r : DayOfWeek(r.date) = days[i])
            IN  [weekday |-> days[i], mean |-> MeanAbs(SumAmounts(group), Len(group))]]

DayType(dt) ==
    IF WORKDAY_START <= DayOfWeek(dt) /\ DayOfWeek(dt) <= WORKDAY_END
    THEN WORKDAY ELSE WEEKEND

\* groupby(day type)[amount].mean().abs(): the weekend row before the
\* workday row, as their names sort.
ByDayType(df) ==
    LET types == SelectSeq(<<WEEKEND, WORKDAY>>,
                           LAMBDA t : \E r \in Range(df) : DayType(r.date) = t)
    IN  [i \in DOMAIN types |->
            LET group == SelectSeq(df, LAMBDA r : DayType(r.date) = types[i])
            IN  [day_type |-> types[i], mean |-> MeanAbs(SumAmounts(group), Len(group))]]

\* reports.spending_by_category: the DataFrame returned (<<>> when empty).
spending_by_category(df, w, category, date) ==
    IF df = <<>> THEN <<>>
    ELSE LET current_date == ReportDate(date, w)
             period == get_three_months_back(current_date.dt)
         IN  IF ~current_date.ok THEN <<>>
             ELSE IF period.raised THEN <<>>
             ELSE ByMonth(SelectSeq(df, LAMBDA r :
                      /\ r.category = category
                      /\ InPeriodExpense(r, period.value[1], period.value[2])))

\* reports.spending_by_weekday
spending_by_weekday(df, w, date) ==
    IF df = <<>> THEN <<>>
    ELSE LET current_date == ReportDate(date, w)
             period == get_three_months_back(current_date.dt)
         IN  IF ~current_date.ok THEN <<>>
             ELSE IF period.raised THEN <<>>
             ELSE ByWeekday(SelectSeq(df, LAMBDA r :
                      InPeriodExpense(r, period.value[1], period.value[2])))

\* reports.spending_by_workday
spending_by_workday(df, w, date) ==
    IF df = <<>> THEN <<>>
    ELSE LET current_date == ReportDate(date, w)
             period == get_three_months_back(current_date.dt)
         IN  IF ~current_date.ok THEN <<>>
             ELSE IF period.raised THEN <<>>
             ELSE ByDayType(SelectSeq(df, LAMBDA r :
                      InPeriodExpense(r, period.value[1], period.value[2])))

\* reports.save_report, the wrapper around a report whose run gave report:
\* the outcome of the call and the steps gone through. The directory is made
\* outside the try block (reports.py 106-116); opening the file and dumping
\* the result are inside it (119-130).
save_report_wrapper(report, w) ==
    IF w.mkdir # "ok"
    THEN [outcome |-> Raised(w.mkdir), steps |-> <<"func", "mkdir">>]
    ELSE IF w.open # "ok"
    THEN [outcome |-> Returned(report), steps |-> <<"func", "mkdir", "open", "log_error">>]
    ELSE IF w.dump # "ok"
    THEN [outcome |-> Returned(report),
          steps |-> <<"func", "mkdir", "open", "dump", "log_error">>]
    ELSE [outcome |-> Returned(report),
          steps |-> <<"func", "mkdir", "open", "dump", "log_info">>]

\* A caller calls a report.
ReportCall(fn, category, date) ==
    [fn |-> fn, date |-> date, period |-> "", start_date |-> NoDate,
     end_date |-> NoDate, card_filter |-> <<>>, category |-> category]

Report(fn, report, category, date) ==
    /\ call = NoCall
    /\ result' = save_report_wrapper(report, world).outcome
    /\ effects' = save_report_wrapper(report, world).steps
    /\ call' = ReportCall(fn, category, date)
    /\ transactions' = SourceAfter(fn, transactions)
    /\ UNCHANGED <<world, consulted>>

SpendingByCategory(category, date) ==
    Report("spending_by_category",
           spending_by_category(transactions, world, category, date), category, date)

SpendingByWeekday(date) ==
    Report("spending_by_weekday", spending_by_weekday(transactions, world, date), "", date)

SpendingByWorkday(date) ==
    Report("spending_by_workday", spending_by_workday(transactions, world, date), "", date)

\* ------------------------------------------------------------------------
\* The investment round-up (services.py investment_bank). A transaction is
\* a dictionary with an operation date (a datetime, a text or nothing) and an
\* amount; the month asked for is a text.
\* ------------------------------------------------------------------------
\* datetime.strptime(month, "%Y-%m").
StrpMonth(month) ==
    IF month.fmt = "ym" /\ month.y \in 1..9999 /\ month.m \in 1..12
    THEN [ok |-> TRUE, year |-> month.y, month |-> month.m]
    ELSE [ok |-> FALSE, year |-> 0, month |-> 0]

\* The operation date the loop reads from a transaction: nothing or an empty
\* text is skipped, a text is parsed with "%d.%m.%Y %H:%M:%S" (a failure is
\* caught and the transaction skipped), a datetime is taken as it is.
OperationDate(transaction) ==
    LET d == transaction.date
    IN  IF d.fmt \in {"none", "empty"} THEN [ok |-> FALSE, dt |-> NaT]
        ELSE IF d.fmt = "datetime" THEN [ok |-> TRUE, dt |-> <<d.y, d.m, d.d, d.hh, d.mi, d.ss>>]
        ELSE IF d.fmt = "dmy" /\ ValidDate(d.y, d.m, d.d) /\ ValidTime(d.hh, d.mi, d.ss)
        THEN [ok |-> TRUE, dt |-> <<d.y, d.m, d.d, d.hh, d.mi, d.ss>>]
        ELSE [ok |-> FALSE, dt |-> NaT]

\* The expenses of the month: operation date in the target year and month,
\* amount below zero.
FilteredTransactions(transactions_, target_year, target_month) ==
    SelectSeq(transactions_, LAMBDA t :
        /\ OperationDate(t).ok
        /\ OperationDate(t).dt[1] = target_year
        /\ OperationDate(t).dt[2] = target_month
        /\ t.amount < 0)

\* math.ceil(n / d) for d > 0.
Ceil(n, d) == -((-n) \div d)

\* A rounding that moves an amount already on a multiple to the next one.
RoundingDiffNextMultiple(amount_value, limit) ==
    ((amount_value \div (limit * Scale)) + 1) * (limit * Scale) - amount_value

\* rounded - amount_value, with rounded = math.ceil(amount_value / limit) *
\* limit; the amount is in 1/Scale rubles and the limit in rubles.
RoundingDiff(amount_value, limit) ==
    Ceil(amount_value, limit * Scale) * (limit * Scale) - amount_value

RECURSIVE TotalRounding(_, _)
TotalRounding(filtered_transactions, limit) ==
    IF filtered_transactions = <<>> THEN 0
    ELSE RoundingDiff(Abs(Head(filtered_transactions).amount), limit)
         + TotalRounding(Tail(filtered_transactions), limit)

\* The value returned, in hundredths of a ruble.
investment_bank(month, transactions_, limit) ==
    IF transactions_ = <<>> THEN 0
    ELSE IF limit <= 0 THEN 0
    ELSE IF ~StrpMonth(month).ok THEN 0
    ELSE LET filtered_transactions ==
                 FilteredTransactions(transactions_, StrpMonth(month).year,
                                      StrpMonth(month).month)
         IN  IF filtered_transactions = <<>> THEN 0
             ELSE Round2(TotalRounding(filtered_transactions, limit))

\* A caller asks for the round-up of a month.
InvestCall(month, limit) ==
    [fn |-> "investment_bank", date |-> NoDate, period |-> "", start_date |-> NoDate,
     end_date |-> NoDate, card_filter |-> <<>>, month |-> month, limit |-> limit]

InvestmentBank(month, limit) ==
    /\ call = NoCall
    /\ result' = Returned(investment_bank(month, transactions, limit))
    /\ call' = InvestCall(month, limit)
    /\ UNCHANGED <<transactions, world, consulted, effects>>

\* ------------------------------------------------------------------------
\* The cashback by category (services.py profitable_cashback_categories). A
\* cashback is a number, nothing, a text that is no number, or the float nan
\* that a record made from a data frame carries for a missing cell
\* (main.py 134); a sum is a number or nan.
\* ------------------------------------------------------------------------
Number(v) == [nan |-> FALSE, value |-> v]
NaNFloat == [nan |-> TRUE, value |-> 0]
FloatAdd(a, b) == IF a.nan \/ b.nan THEN NaNFloat ELSE Number(a.value + b.value)

\* cashback_value = float(cashback) if cashback else 0.0, a ValueError or
\* TypeError giving 0.0; nan is truthy and float(nan) is nan.
CashbackValue(cashback) ==
    IF cashback.kind \in {"none", "text"} THEN Number(0)
    ELSE IF cashback.kind = "nan" THEN NaNFloat
    ELSE Number(cashback.value)

RECURSIVE CategoryCashback(_, _)
CategoryCashback(filtered_transactions, category) ==
    IF filtered_transactions = <<>> THEN Number(0)
    ELSE LET rest == CategoryCashback(Tail(filtered_transactions), category)
         IN  IF Head(filtered_transactions).category = category
             THEN FloatAdd(CashbackValue(Head(filtered_transactions).cashback), rest)
             ELSE rest

profitable_cashback_categories(data, year, month) ==
    LET filtered_transactions ==
            SelectSeq(data, LAMBDA t :
                /\ OperationDate(t).ok
                /\ OperationDate(t).dt[1] = year
                /\ OperationDate(t).dt[2] = month
                /\ t.status = "OK")
        categories == {filtered_transactions[i].category : i \in DOMAIN filtered_transactions} \ {""}
    IN  [category \in categories |-> CategoryCashback(filtered_transactions, category)]

\* A caller asks for the cashback of a month.
ProfitableCashbackCategories(year, month) ==
    /\ call = NoCall
    /\ result' = Returned(profitable_cashback_categories(transactions, year, month))
    /\ call' = [fn |-> "profitable_cashback_categories", date |-> NoDate, period |-> "",
                start_date |-> NoDate, end_date |-> NoDate, card_filter |-> <<>>,
                year |-> year, month |-> month]
    /\ UNCHANGED <<transactions, world, consulted, effects>>

\* ------------------------------------------------------------------------
\* The searches (services.py). A description is a sequence of characters; a
\* Cyrillic letter is written CYR_X (capital) or cyr_x (small), the no-break
\* space NBSP.
\* ------------------------------------------------------------------------
\* What \s matches and str.strip() removes.
Whitespace == {" ", "\t", "\n", "NBSP"}
\* [А-ЯЁ] and [а-яё].
UpperCyrillic ==
    {"CYR_A", "CYR_V", "CYR_P", "CYR_YA", "CYR_N", "CYR_YO", "CYR_L", "CYR_O"}
LowerCyrillic ==
    {"cyr_a", "cyr_v", "cyr_p", "cyr_ya", "cyr_n", "cyr_yo", "cyr_l", "cyr_e", "cyr_r",
     "cyr_i", "cyr_j", "cyr_o", "cyr_d", "cyr_s", "cyr_ch", "cyr_t"}

\* description.strip()
RECURSIVE Strip(_)
Strip(s) ==
    IF s = <<>> THEN s
    ELSE IF Head(s) \in Whitespace THEN Strip(Tail(s))
    ELSE IF s[Len(s)] \in Whitespace THEN Strip(SubSeq(s, 1, Len(s) - 1))
    ELSE s

\* The whole of s is [А-ЯЁ][а-яё]+\s[А-ЯЁ]\.
IsPersonName(s) ==
    /\ Len(s) >= 5
    /\ s[1] \in UpperCyrillic
    /\ \A i \in 2..(Len(s) - 3) : s[i] \in LowerCyrillic
    /\ s[Len(s) - 2] \in Whitespace
    /\ s[Len(s) - 1] \in UpperCyrillic
    /\ s[Len(s)] = "."

\* re.compile(PERSON_NAME_PATTERN).match(s): ^ at the start, $ at the end or
\* before a final newline.
PersonNameMatch(s) ==
    \/ IsPersonName(s)
    \/ s # <<>> /\ s[Len(s)] = "\n" /\ IsPersonName(SubSeq(s, 1, Len(s) - 1))

\* A search that does not look at the category.
SearchPersonAnyCategory(transactions_) ==
    [transactions |-> SelectSeq(transactions_, LAMBDA t : PersonNameMatch(Strip(t.description)))]

search_person_transfers(transactions_) ==
    [transactions |->
        SelectSeq(transactions_, LAMBDA t :
            t.category = CATEGORY_TRANSFERS /\ PersonNameMatch(Strip(t.description)))]

ServiceCall(fn) ==
    [fn |-> fn, date |-> NoDate, period |-> "", start_date |-> NoDate,
     end_date |-> NoDate, card_filter |-> <<>>]

SearchPersonTransfers ==
    /\ call = NoCall
    /\ result' = Returned(search_person_transfers(transactions))
    /\ call' = ServiceCall("search_person_transfers")
    /\ UNCHANGED <<transactions, world, consulted, effects>>

\* A pattern is a sequence of items, each a set of characters that matches
\* one character, or none when the item is optional.
One(chars) == [chars |-> chars, optional |-> FALSE]
Optional(chars) == [chars |-> chars, optional |-> TRUE]
Digits == {"0", "1", "2", "3", "4", "5", "6", "7", "8", "9"}

\* The pattern matches s from position i on.
RECURSIVE MatchAt(_, _, _)
MatchAt(s, i, pattern) ==
    IF pattern = <<>> THEN TRUE
    ELSE \/ i <= Len(s) /\ s[i] \in Head(pattern).chars /\ MatchAt(s, i + 1, Tail(pattern))
         \/ Head(pattern).optional /\ MatchAt(s, i, Tail(pattern))

\* \+7\s?\d{3}\s?\d{3}[-]?\d{2}[-]?\d{2}
PHONE_PATTERN ==
    <<One({"+"}), One({"7"}), Optional(Whitespace), One(Digits), One(Digits), One(Digits),
      Optional(Whitespace), One(Digits), One(Digits), One(Digits), Optional({"-"}),
      One(Digits), One(Digits), Optional({"-"}), One(Digits), One(Digits)>>

\* pattern.search(description)
PatternSearch(pattern, description) ==
    \E i \in 1..(Len(description) + 1) : MatchAt(description, i, pattern)

search_by_phone(transactions_) ==
    [transactions |->
        SelectSeq(transactions_, LAMBDA t : PatternSearch(PHONE_PATTERN, t.description))]

SearchByPhone ==
    /\ call = NoCall
    /\ result' = Returned(search_by_phone(transactions))
    /\ call' = ServiceCall("search_by_phone")
    /\ UNCHANGED <<transactions, world, consulted, effects>>

\* A cell of description or category is a text, or missing: the float nan of
\* a record made from a data frame (main.py 134).
Text(s) == [missing |-> FALSE, text |-> s]
MissingText == [missing |-> TRUE, text |-> <<>>]

\* str(cell)
Str(cell) == IF cell.missing THEN <<"n", "a", "n">> ELSE cell.text

\* The capital and the small form of the letters used.
CasePairs ==
    {<<"CYR_L", "cyr_l">>, <<"CYR_E", "cyr_e">>, <<"CYR_N", "cyr_n">>, <<"CYR_T", "cyr_t">>,
     <<"CYR_A", "cyr_a">>, <<"CYR_P", "cyr_p">>, <<"CYR_D", "cyr_d">>, <<"CYR_V", "cyr_v">>,
     <<"CYR_R", "cyr_r">>, <<"CYR_O", "cyr_o">>, <<"A", "a">>, <<"B", "b">>, <<"N", "n">>}

\* s.lower()
LowerChar(c) ==
    IF \E p \in CasePairs : p[1] = c THEN (CHOOSE p \in CasePairs : p[1] = c)[2] ELSE c
Lower(s) == [i \in DOMAIN s |-> LowerChar(s[i])]

\* needle in hay
Contains(needle, hay) ==
    \E i \in 0..(Len(hay) - Len(needle)) : SubSeq(hay, i + 1, i + Len(needle)) = needle

simple_search(query, transactions_) ==
    IF query = <<>> THEN [query |-> query, transactions |-> <<>>]
    ELSE IF transactions_ = <<>> THEN [query |-> query, transactions |-> <<>>]
    ELSE LET query_lower == Lower(query)
         IN  [query |-> query,
              transactions |->
                 SelectSeq(transactions_, LAMBDA t :
                     \/ Contains(query_lower, Lower(Str(t.description)))
                     \/ Contains(query_lower, Lower(Str(t.category))))]

SimpleSearch(query) ==
    /\ call = NoCall
    /\ result' = Returned(simple_search(query, transactions))
    /\ call' = [fn |-> "simple_search", date |-> NoDate, period |-> "",
                start_date |-> NoDate, end_date |-> NoDate, card_filter |-> <<>>,
                query |-> query]
    /\ UNCHANGED <<transactions, world, consulted, effects>>

\* ------------------------------------------------------------------------
\* The settings store and the quote provider in detail (utils.py). The module
\* keeps one list object DEFAULT_RETURN_VALUE and one dict object
\* DEFAULT_RETURN_DICT (utils.py 31-32), which world holds in this part of
\* the model. A value handed to a caller is a new object with its contents,
\* or one of the two module objects, whose contents are read from world.
\* ------------------------------------------------------------------------
NewObject(contents) == [object |-> "new", contents |-> contents]
ModuleObject(name) == [object |-> name, contents |-> <<>>]
ContentsIn(obj, w) == IF obj.object = "new" THEN obj.contents ELSE w[obj.object]

NoKeys == [user_currencies |-> <<>>, user_stocks |-> <<>>]
PristineObjects == [DEFAULT_RETURN_VALUE |-> <<>>, DEFAULT_RETURN_DICT |-> NoKeys]

\* load_user_settings(): the dict read from the file, or the module's dict
\* when the file is missing, is no JSON or cannot be read.
LoadSettings(file) ==
    IF file.state = "ok" THEN NewObject(file.settings) ELSE ModuleObject("DEFAULT_RETURN_DICT")

\* The entries of the symbols that the answers hold, in the order asked.
RECURSIVE QuotesOf(_, _, _)
QuotesOf(symbols, have, entry) ==
    IF symbols = <<>> THEN <<>>
    ELSE (IF Head(symbols) \in have THEN <<entry[Head(symbols)]>> ELSE <<>>)
         \o QuotesOf(Tail(symbols), have, entry)

\* get_currency_rates(currencies) with the environment env: the API URL and
\* key, and what the one request ends with.
CurrencyRates(currencies, env) ==
    IF currencies = <<>> THEN ModuleObject("DEFAULT_RETURN_VALUE")
    ELSE IF env.api_url # "exchangerate-api.com" /\ env.api_key \in {"missing", "placeholder"}
    THEN ModuleObject("DEFAULT_RETURN_VALUE")
    ELSE IF env.response.kind \in {"rates", "conversion_rates"}
    THEN NewObject(QuotesOf(currencies, env.response.have,
                            [c \in Range(currencies) |-> [currency |-> c, rate |-> 7321]]))
    ELSE ModuleObject("DEFAULT_RETURN_VALUE")

\* get_stock_prices(stocks) with the environment env: the API key, and what
\* the request of each stock ends with. Each request has its own try block.
StockPrices(stocks, env) ==
    IF stocks = <<>> THEN ModuleObject("DEFAULT_RETURN_VALUE")
    ELSE IF env.api_key \in {"missing", "placeholder"} THEN ModuleObject("DEFAULT_RETURN_VALUE")
    ELSE NewObject(QuotesOf(stocks, {s \in Range(stocks) : env.responses[s] = "quote"},
                            [s \in Range(stocks) |-> [stock |-> s, price |-> 15012]]))

\* The external data of a page (views.py 249-255, 472-478): the settings are
\* read through the objects as they are now.
PageQuotes(file, currency_env, stock_env, w) ==
    LET settings == ContentsIn(LoadSettings(file), w)
    IN  [currency_rates |-> IF settings.user_currencies # <<>>
                            THEN CurrencyRates(settings.user_currencies, currency_env)
                            ELSE NewObject(<<>>),
         stock_prices |-> IF settings.user_stocks # <<>>
                          THEN StockPrices(settings.user_stocks, stock_env)
                          ELSE NewObject(<<>>)]

\* A call of the provider, of the settings store or of a page, with its
\* arguments and environment.
ProviderCall(fn, args) ==
    /\ result' = Returned(IF fn = "load_user_settings" THEN LoadSettings(args.file)
                          ELSE IF fn = "get_currency_rates"
                          THEN CurrencyRates(args.symbols, args.currency_env)
                          ELSE IF fn = "get_stock_prices"
                          THEN StockPrices(args.symbols, args.stock_env)
                          ELSE PageQuotes(args.file, args.currency_env, args.stock_env, world))
    /\ call' = [fn |-> fn, args |-> args]
    /\ effects' = <<"returned">>
    /\ UNCHANGED <<transactions, world, consulted>>

\* The caller appends an item to a list returned to it, or adds a key to a
\* dict returned to it: the object named changes, the module's own object
\* when that is what was returned.
CallerModifies(field) ==
    LET obj == IF field = "" THEN result.value ELSE result.value[field]
        old == ContentsIn(obj, world)
        new == IF call.fn = "load_user_settings"
               THEN [old EXCEPT !.user_currencies = <<"USD">>]
               ELSE Append(old, [added |-> TRUE])
    IN  /\ call.fn # "none"
        /\ effects = <<"returned">>
        /\ (field = "") = (call.fn \in {"load_user_settings", "get_currency_rates",
                                        "get_stock_prices"})
        /\ call.fn # "load_user_settings" => Len(old) < MaxAppends
        /\ effects' = <<"modified">>
        /\ IF obj.object = "new"
           THEN /\ result' = Returned(IF field = "" THEN NewObject(new)
                                      ELSE [result.value EXCEPT ![field] = NewObject(new)])
                /\ UNCHANGED world
           ELSE /\ world' = [world EXCEPT ![obj.object] = new]
                /\ UNCHANGED result
        /\ UNCHANGED <<transactions, call, consulted>>

\* A caller calls a date utility on a datetime.
DateCall(fn, date) ==
    [fn |-> fn, date |-> date, period |-> "", start_date |-> NoDate,
     end_date |-> NoDate, card_filter |-> <<>>]

GetMonthRange(date) ==
    /\ call = NoCall
    /\ result' = get_month_range(date)
    /\ call' = DateCall("get_month_range", date)
    /\ UNCHANGED <<transactions, world, consulted, effects>>

GetThreeMonthsBack(date) ==
    /\ call = NoCall
    /\ result' = get_three_months_back(date)
    /\ call' = DateCall("get_three_months_back", date)
    /\ UNCHANGED <<transactions, world, consulted, effects>>

\* ------------------------------------------------------------------------
\* Inputs
\* ------------------------------------------------------------------------
Row(date, card, status, amount, category, description) ==
    [date |-> date, card |-> card, status |-> status, amount |-> amount,
     category |-> category, description |-> description]

IsoDate(y, m, d) ==
    [fmt |-> "iso", y |-> y, m |-> m, d |-> d, hh |-> 0, mi |-> 0, ss |-> 0]
IsoDateTime(y, m, d, hh, mi, ss) ==
    [fmt |-> "iso", y |-> y, m |-> m, d |-> d, hh |-> hh, mi |-> mi, ss |-> ss]
OtherText == [fmt |-> "other", y |-> 0, m |-> 0, d |-> 0, hh |-> 0, mi |-> 0, ss |-> 0]
EmptyText == [fmt |-> "empty", y |-> 0, m |-> 0, d |-> 0, hh |-> 0, mi |-> 0, ss |-> 0]

\* The answers of the collaborators: settings naming a currency and a stock
\* or naming none, each quote request succeeding or failing. short tells
\* whether the doubles of the dataset add up just below their decimal sum
\* (see SeriesSum): they do not unless a specification says so.
World(settings, rates_up, stocks_up) ==
    [settings |-> settings, rates_up |-> rates_up, stocks_up |-> stocks_up,
     short |-> FALSE]
NoSettings == [user_currencies |-> <<>>, user_stocks |-> <<>>]
UserSettings == [user_currencies |-> <<"USD">>, user_stocks |-> <<"AAPL">>]
Worlds == {World(st, r, k) : st \in {NoSettings, UserSettings}, r \in BOOLEAN, k \in BOOLEAN}

\* All datasets of at most n rows of a pool.
SeqsUpTo(P, n) == UNION {[1..k -> P] : k \in 0..n}

Card7197 == <<"*", "7", "1", "9", "7">>
Card5814 == <<"*", "5", "8", "1", "4">>
CardUnmasked == <<"1", "2", "3", "4", "5", "6", "7", "8", "9", "0">>
CardShort == <<"*", "*", "1", "2">>

\* --- the window inputs ---------------------------------------------------
\* Reference days: 2024-03-05 (its week reaches back over 29 February of a
\* leap year) and 2024-01-03 (its week reaches back into the previous year).
RefDays == {<<2024, 3, 5>>, <<2024, 1, 3>>}

NextSecond(dt) ==
    IF dt[3] < DaysInMonth(dt[1], dt[2]) THEN <<dt[1], dt[2], dt[3] + 1, 0, 0, 0>>
    ELSE IF dt[2] < 12 THEN <<dt[1], dt[2] + 1, 1, 0, 0, 0>>
    ELSE <<dt[1] + 1, 1, 1, 0, 0, 0>>

PrevSecond(dt) ==
    IF dt[3] > 1 THEN <<dt[1], dt[2], dt[3] - 1, 23, 59, 59>>
    ELSE IF dt[2] > 1 THEN <<dt[1], dt[2] - 1, DaysInMonth(dt[1], dt[2] - 1), 23, 59, 59>>
    ELSE <<dt[1] - 1, 12, 31, 23, 59, 59>>

RECURSIVE DaysBack(_, _)
DaysBack(dt, n) ==
    IF n = 0 THEN <<dt[1], dt[2], dt[3], 0, 0, 0>>
    ELSE LET p == PrevSecond(<<dt[1], dt[2], dt[3], 0, 0, 0>>)
         IN  DaysBack(<<p[1], p[2], p[3], 0, 0, 0>>, n - 1)

\* The instants on both sides of every edge of the windows of a day.
EdgeInstants(d) ==
    LET last == <<d[1], d[2], d[3], 23, 59, 59>>
        firsts == {<<d[1], d[2], 1, 0, 0, 0>>, <<d[1], 1, 1, 0, 0, 0>>,
                   DaysBack(d, 6), <<2000, 1, 1, 0, 0, 0>>}
    IN  {last, NextSecond(last)} \cup firsts \cup {PrevSecond(f) : f \in firsts}

Instants == UNION {EdgeInstants(d) : d \in RefDays} \cup {NaT}

CategoryNames ==
    <<"c01", "c02", "c03", "c04", "c05", "c06", "c07", "c08", "c09", "c10",
      "c11", "c12", "c13", "c14", "c15", "c16", "c17", "c18", "c19", "c20",
      "c21", "c22", "c23", "c24", "c25", "c26", "c27", "c28", "c29", "c30">>

\* Instants are numbered in their order, NaT first.
InstantIndex(t) == Cardinality({u \in Instants : u = NaT \/ DtLE(u, t)})

\* One OK expense per instant, each with its own category and amount.
WindowRows ==
    {Row(t, Card7197, "OK", -(10 * Scale + InstantIndex(t)),
         CategoryNames[InstantIndex(t)], CategoryNames[InstantIndex(t)]) : t \in Instants}

WindowDates == {IsoDate(d[1], d[2], d[3]) : d \in RefDays}

WindowDateTimes ==
    {IsoDateTime(2024, 3, 5, 14, 30, 0), IsoDateTime(2024, 3, 5, 0, 0, 0),
     IsoDateTime(2024, 1, 3, 23, 59, 59)}

\* ------------------------------------------------------------------------
\* Specification of the period windows: every dataset of at most MaxRows
\* window rows, every period on every reference day.
\* ------------------------------------------------------------------------
InitWindow ==
    /\ transactions \in SeqsUpTo(WindowRows, MaxRows)
    /\ world = World(UserSettings, TRUE, FALSE)
    /\ call = NoCall
    /\ result = Returned([none |-> TRUE])
    /\ consulted = {}
    /\ effects = <<>>

NextWindow ==
    \/ \E date \in WindowDates, period \in {"W", "M", "Y", "ALL"} :
           EventsPage(date, period, NoDate, NoDate, <<>>)
    \/ \E start_date \in {IsoDate(2024, 2, 28), IsoDate(2024, 3, 1)},
          end_date \in {IsoDate(2024, 3, 5), IsoDate(2024, 1, 3)} :
           EventsPage(EmptyText, "CUSTOM", start_date, end_date, <<>>)
    \/ \E date_time \in WindowDateTimes : HomePage(date_time)

SpecWindow == InitWindow /\ [][NextWindow]_vars

\* --- the inputs of the calls ----------------------------------------------
\* Rows inside and outside the month window of 2024-03-05, of status OK and
\* of other statuses, expenses and income.
CallRows ==
    {Row(<<2024, 3, 5, 23, 59, 59>>, Card7197, "OK", -(10 * Scale + 3), "food", "lunch"),
     Row(<<2024, 3, 5, 23, 59, 59>>, Card7197, "FAILED", -(50 * Scale), "failed", "refused"),
     Row(<<2024, 3, 5, 23, 59, 59>>, Card7197, "FAILED", -(20 * Scale + 1), "food", "dinner"),
     Row(<<2024, 3, 1, 0, 0, 0>>, Card5814, "", 70 * Scale + 1, "blank", "pending"),
     Row(<<2024, 3, 1, 0, 0, 0>>, Card5814, "OK", 90 * Scale + 3, "salary", "march"),
     Row(<<2024, 3, 6, 0, 0, 0>>, Card5814, "OK", -(30 * Scale), "late", "tomorrow")}

CallDates == {IsoDate(2024, 3, 5), IsoDate(2023, 2, 29), OtherText, EmptyText, NoDate}

CallDateTimes ==
    {IsoDateTime(2024, 3, 5, 14, 30, 0), IsoDateTime(2024, 3, 5, 6, 0, 0),
     IsoDateTime(2024, 3, 5, 24, 0, 0), IsoDateTime(2024, 2, 30, 9, 0, 0),
     OtherText, NoDate}

CustomStarts == {IsoDate(2024, 3, 1), IsoDate(2024, 2, 30), NoDate}
CustomEnds == {IsoDate(2024, 3, 5), OtherText, EmptyText}

\* ------------------------------------------------------------------------
\* Specification of the calls: every dataset of at most MaxRows call rows,
\* every kind of argument, valid or not.
\* ------------------------------------------------------------------------
InitCalls ==
    /\ transactions \in SeqsUpTo(CallRows, MaxRows)
    /\ world \in {World(NoSettings, TRUE, TRUE), World(UserSettings, TRUE, TRUE),
                  World(UserSettings, TRUE, FALSE)}
    /\ call = NoCall
    /\ result = Returned([none |-> TRUE])
    /\ consulted = {}
    /\ effects = <<>>

NextCalls ==
    \/ \E date \in CallDates, period \in {"W", "M", "Y", "ALL", "D", ""} :
           EventsPage(date, period, NoDate, NoDate, <<>>)
    \/ \E date \in {IsoDate(2024, 3, 5), OtherText},
          start_date \in CustomStarts, end_date \in CustomEnds :
           EventsPage(date, "CUSTOM", start_date, end_date, <<>>)
    \/ \E date_time \in CallDateTimes : HomePage(date_time)

SpecCalls == InitCalls /\ [][NextCalls]_vars

\* --- the inputs of the rollup ---------------------------------------------
Noon == <<2024, 3, 5, 12, 0, 0>>

Expense(category, amount) == Row(Noon, Card7197, "OK", -amount, category, category)
Income(category, amount) == Row(Noon, Card7197, "OK", amount, category, category)

\* Seven expense categories of whole amounts and eight income categories.
BaseRows ==
    <<Expense("k1", 80 * Scale), Expense("k2", 70 * Scale), Expense("k3", 60 * Scale),
      Expense("k4", 50 * Scale), Expense("k5", 40 * Scale), Expense("k6", 30 * Scale),
      Expense("k7", 20 * Scale),
      Income("j1", 85 * Scale + 1), Income("j2", 75 * Scale + 1), Income("j3", 65 * Scale + 1),
      Income("j4", 55 * Scale + 1), Income("j5", 45 * Scale + 1), Income("j6", 35 * Scale + 1),
      Income("j7", 25 * Scale + 1), Income("j8", 15 * Scale + 1)>>

\* Rows to append: transfers and cash, large and tiny; an eighth and a ninth
\* category, one of them level with the seventh; amounts with a fraction, an
\* amount 0, an income; a row without category; other cards; a row of
\* another status and a row outside the window. The row of the short card
\* makes the ninth category a whole number.
RollupRows ==
    {Expense(CATEGORY_TRANSFERS, 100 * Scale + 1),
     Income(CATEGORY_TRANSFERS, 5 * Scale + 2),
     Expense(CATEGORY_CASH, 3),
     Expense("k8", 20 * Scale),
     Expense("k9", 15 * Scale + 3),
     Expense("k9", 0),
     Income("k9", 12 * Scale + 3),
     Expense(NaNCategory, 9 * Scale + 1),
     Row(Noon, Card5814, "OK", -(6 * Scale + 2), "k1", "other card"),
     Row(Noon, CardUnmasked, "OK", -(4 * Scale + 1), "k2", "unmasked card"),
     Row(Noon, CardShort, "OK", -(Scale - 3), "k9", "short card"),
     Row(Noon, NaNCard, "OK", -(2 * Scale + 3), "k3", "no card"),
     Row(Noon, Card7197, "FAILED", -(60 * Scale), CATEGORY_TRANSFERS, "refused"),
     Row(<<2024, 3, 6, 0, 0, 0>>, Card7197, "OK", -(33 * Scale), "k8", "tomorrow")}

CardFilters ==
    {<<>>, <<"7", "1", "9", "7">>, <<"5", "8", "1", "4">>, <<"7", "8", "9", "0">>,
     <<"1", "2">>}

\* ------------------------------------------------------------------------
\* Specification of the rollup: the empty or the base dataset with at most
\* MaxRows rows appended, the base dataset with doubles that add up exactly
\* or fall short, the month of 2024-03-05, every card filter.
\* ------------------------------------------------------------------------
InitRollup ==
    /\ \E base \in {<<>>, BaseRows}, more \in SeqsUpTo(RollupRows, MaxRows),
          short \in BOOLEAN :
           /\ transactions = base \o more
           /\ world = [World(UserSettings, TRUE, FALSE)
                          EXCEPT !.short = short /\ base # <<>>]
    /\ call = NoCall
    /\ result = Returned([none |-> TRUE])
    /\ consulted = {}
    /\ effects = <<>>

NextRollup ==
    \/ \E card_filter \in CardFilters :
           EventsPage(IsoDate(2024, 3, 5), "M", NoDate, NoDate, card_filter)
    \/ HomePage(IsoDateTime(2024, 3, 5, 14, 30, 0))

SpecRollup == InitRollup /\ [][NextRollup]_vars

\* --- the inputs of the home page ------------------------------------------
HomeRow(card, amount, description) == Row(Noon, card, "OK", amount, "shop", description)

\* Four rows: two cards, an expense and an income of the same size.
HomeBase ==
    <<HomeRow(Card7197, -(20 * Scale), "b1"), HomeRow(Card5814, 20 * Scale, "b2"),
      HomeRow(Card7197, -(15 * Scale + 2), "b3"), HomeRow(Card5814, -(1 * Scale + 1), "b4")>>

\* Rows to append: expenses of the same size on four cards, smaller and
\* larger amounts, an income, a row without card, a row of another status
\* and a row outside the window.
HomePool ==
    {HomeRow(Card7197, -(10 * Scale), "p1"),
     HomeRow(Card5814, -(10 * Scale), "p2"),
     HomeRow(CardUnmasked, -(10 * Scale), "p3"),
     HomeRow(CardShort, -(10 * Scale), "p4"),
     HomeRow(Card5814, -(18 * Scale + 3), "p5"),
     HomeRow(CardShort, 25 * Scale + 1, "p6"),
     HomeRow(CardUnmasked, -1, "p7"),
     HomeRow(NaNCard, -(40 * Scale), "p8"),
     Row(Noon, Card7197, "FAILED", -(99 * Scale), "shop", "p9"),
     Row(<<2024, 3, 6, 0, 0, 0>>, Card5814, "OK", -(77 * Scale), "shop", "p10")}

\* ------------------------------------------------------------------------
\* Specification of the home page: the empty or the base dataset with at
\* most MaxRows rows appended, at two times of 2024-03-05.
\* ------------------------------------------------------------------------
InitHome ==
    /\ \E base \in {<<>>, HomeBase}, more \in SeqsUpTo(HomePool, MaxRows) :
           transactions = base \o more
    /\ world = World(UserSettings, TRUE, FALSE)
    /\ call = NoCall
    /\ result = Returned([none |-> TRUE])
    /\ consulted = {}
    /\ effects = <<>>

NextHome == \E date_time \in {IsoDateTime(2024, 3, 5, 14, 30, 0),
                               IsoDateTime(2024, 3, 5, 23, 59, 59)} :
                HomePage(date_time)

SpecHome == InitHome /\ [][NextHome]_vars

\* ------------------------------------------------------------------------
\* Specification of the greeting: home_page at every hour of 2024-03-05, at
\* the first and the last minute of the hour, on each prefix of the base
\* dataset.
\* ------------------------------------------------------------------------
InitGreeting ==
    /\ \E k \in 0..Len(HomeBase) : transactions = SubSeq(HomeBase, 1, k)
    /\ world = World(NoSettings, TRUE, TRUE)
    /\ call = NoCall
    /\ result = Returned([none |-> TRUE])
    /\ consulted = {}
    /\ effects = <<>>

NextGreeting == \E hh \in 0..23, mi \in {0, 59} : HomePage(IsoDateTime(2024, 3, 5, hh, mi, 0))

SpecGreeting == InitGreeting /\ [][NextGreeting]_vars

\* --- the inputs of the date utilities --------------------------------------
\* The first and the last year of the calendar, a leap year and the year
\* before it, a century year that is no leap year and one that is.
UtilYears == {1, 2000, 2023, 2024, 2100, 9999}

\* Every month of those years, on its first, fifteenth and last day, at the
\* first second, in the afternoon and at the last second of the day.
UtilDates ==
    {<<y, m, d, t[1], t[2], t[3]>> :
        y \in UtilYears, m \in 1..12, d \in {1, 15, 28, 29, 30, 31},
        t \in {<<0, 0, 0>>, <<14, 30, 0>>, <<23, 59, 59>>}}

\* ------------------------------------------------------------------------
\* Specification of the date utilities: each of them on each valid datetime.
\* ------------------------------------------------------------------------
InitDates ==
    /\ transactions = <<>>
    /\ world = World(NoSettings, TRUE, TRUE)
    /\ call = NoCall
    /\ result = Returned([none |-> TRUE])
    /\ consulted = {}
    /\ effects = <<>>

NextDates ==
    \/ \E date \in {x \in UtilDates : ValidDate(x[1], x[2], x[3])} : GetMonthRange(date)
    \/ \E date \in {x \in UtilDates : ValidDate(x[1], x[2], x[3])} : GetThreeMonthsBack(date)

SpecDates == InitDates /\ [][NextDates]_vars

\* --- the inputs of the reports ---------------------------------------------
\* Rows around the three months before 2024-03-15, whose period runs from
\* 2023-12-01 00:00:00 to 2024-03-31 23:59:59: expenses on a Friday, a
\* Saturday and at both ends of the period, a refused expense, an income, an
\* amount 0 and expenses one second outside the period.
ReportRows ==
    {Row(<<2024, 3, 15, 12, 0, 0>>, Card7197, "OK", -(10 * Scale + 1), "food", "friday"),
     Row(<<2024, 3, 16, 12, 0, 0>>, Card7197, "OK", -(20 * Scale + 2), "food", "saturday"),
     Row(<<2023, 12, 1, 0, 0, 0>>, Card7197, "OK", -(5 * Scale), "food", "first second"),
     Row(<<2024, 3, 31, 23, 59, 59>>, Card7197, "OK", -(7 * Scale + 3), "fuel", "last second"),
     Row(<<2024, 3, 15, 12, 0, 0>>, Card7197, "FAILED", -(50 * Scale), "food", "refused"),
     Row(<<2024, 3, 15, 12, 0, 0>>, Card7197, "OK", 30 * Scale, "food", "refund"),
     Row(<<2024, 3, 15, 12, 0, 0>>, Card7197, "OK", 0, "food", "nothing"),
     Row(<<2023, 11, 30, 23, 59, 59>>, Card7197, "OK", -(40 * Scale), "food", "too early"),
     Row(<<2024, 4, 1, 0, 0, 0>>, Card7197, "OK", -(60 * Scale), "food", "too late")}

\* The clock and the file system a report runs against: what making the
\* directory, opening the file and dumping the result end with.
ReportWorld(mkdir, open, dump) ==
    [now |-> <<2024, 3, 15, 10, 0, 0>>, mkdir |-> mkdir, open |-> open, dump |-> dump]

ReportWorlds ==
    {ReportWorld("ok", "ok", "ok"), ReportWorld("PermissionError", "ok", "ok"),
     ReportWorld("ok", "PermissionError", "ok"), ReportWorld("ok", "ok", "TypeError")}

ReportDates == {IsoDate(2024, 3, 15), IsoDate(2024, 2, 30), OtherText, NoDate}

\* ------------------------------------------------------------------------
\* Specification of the reports: every dataset of at most MaxRows report
\* rows, every report, against every file system.
\* ------------------------------------------------------------------------
InitReports ==
    /\ transactions \in SeqsUpTo(ReportRows, MaxRows)
    /\ world \in ReportWorlds
    /\ call = NoCall
    /\ result = Returned([none |-> TRUE])
    /\ consulted = {}
    /\ effects = <<>>

NextReports ==
    \/ \E category \in {"food", "fuel"}, date \in ReportDates :
           SpendingByCategory(category, date)
    \/ \E date \in ReportDates : SpendingByWeekday(date)
    \/ \E date \in ReportDates : SpendingByWorkday(date)

SpecReports == InitReports /\ [][NextReports]_vars

\* --- the inputs of the round-up -------------------------------------------
Transaction(fmt, y, m, d, amount) ==
    [date |-> [fmt |-> fmt, y |-> y, m |-> m, d |-> d, hh |-> 10, mi |-> 30, ss |-> 0],
     amount |-> amount]

\* Expenses of March 2024 on and off the multiples of the limits, with a
\* fractional amount, an income, an amount of zero, dates given as texts in
\* and out of the format read, a missing date, and other months.
InvestRows ==
    {Transaction("datetime", 2024, 3, 15, -(1712 * Scale)),
     Transaction("datetime", 2024, 3, 20, -(850 * Scale)),
     Transaction("datetime", 2024, 3, 1, -(123 * Scale)),
     Transaction("datetime", 2024, 3, 31, -(1999 * Scale)),
     Transaction("datetime", 2024, 3, 15, -(12 * Scale + 1)),
     Transaction("datetime", 2024, 3, 15, 10000 * Scale),
     Transaction("datetime", 2024, 3, 15, 0),
     Transaction("dmy", 2024, 3, 15, -(77 * Scale)),
     Transaction("dmy", 2024, 2, 30, -(60 * Scale)),
     Transaction("iso", 2024, 3, 15, -(60 * Scale)),
     Transaction("none", 0, 0, 0, -(40 * Scale)),
     Transaction("datetime", 2024, 2, 29, -(333 * Scale)),
     Transaction("datetime", 2023, 3, 15, -(444 * Scale))}

MonthText(fmt, y, m) == [fmt |-> fmt, y |-> y, m |-> m]

InvestMonths ==
    {MonthText("ym", 2024, 3), MonthText("ym", 2024, 13), MonthText("other", 0, 0)}

InvestLimits == {10, 50, 100, 0, -50}

\* ------------------------------------------------------------------------
\* Specification of the round-up: every list of at most MaxRows
\* transactions, every month text and every limit.
\* ------------------------------------------------------------------------
InitInvest ==
    /\ transactions \in SeqsUpTo(InvestRows, MaxRows)
    /\ world = World("both", TRUE, TRUE)
    /\ call = NoCall
    /\ result = Returned([none |-> TRUE])
    /\ consulted = {}
    /\ effects = <<>>

NextInvest == \E month \in InvestMonths, limit \in InvestLimits : InvestmentBank(month, limit)

SpecInvest == InitInvest /\ [][NextInvest]_vars

\* --- the inputs of the cashback by category ------------------------------
CashbackRow(fmt, y, m, d, status, category, cashback) ==
    [date |-> [fmt |-> fmt, y |-> y, m |-> m, d |-> d, hh |-> 10, mi |-> 30, ss |-> 0],
     status |-> status, category |-> category, cashback |-> cashback]

Cash(v) == [kind |-> "number", value |-> v]
NoCash == [kind |-> "none", value |-> 0]
TextCash == [kind |-> "text", value |-> 0]
NaNCash == [kind |-> "nan", value |-> 0]

CashbackRows ==
    {CashbackRow("datetime", 2024, 3, 15, "OK", "food", Cash(10 * Scale + 2)),
     CashbackRow("datetime", 2024, 3, 20, "OK", "food", Cash(5 * Scale + 1)),
     CashbackRow("datetime", 2024, 3, 20, "OK", "fuel", Cash(3 * Scale)),
     CashbackRow("dmy", 2024, 3, 1, "OK", "fuel", Cash(Scale)),
     CashbackRow("datetime", 2024, 3, 15, "FAILED", "food", Cash(50 * Scale)),
     CashbackRow("datetime", 2024, 4, 1, "OK", "food", Cash(60 * Scale)),
     CashbackRow("datetime", 2023, 3, 15, "OK", "food", Cash(70 * Scale)),
     CashbackRow("none", 0, 0, 0, "OK", "food", Cash(80 * Scale)),
     CashbackRow("number", 0, 0, 0, "OK", "food", Cash(90 * Scale)),
     CashbackRow("iso", 2024, 3, 15, "OK", "food", Cash(95 * Scale)),
     CashbackRow("datetime", 2024, 3, 15, "OK", "", Cash(7 * Scale)),
     CashbackRow("datetime", 2024, 3, 15, "OK", "food", NoCash),
     CashbackRow("datetime", 2024, 3, 15, "OK", "food", TextCash),
     CashbackRow("datetime", 2024, 3, 15, "OK", "food", NaNCash)}

\* ------------------------------------------------------------------------
\* Specification of the cashback by category: every list of at most MaxRows
\* transactions, asked for March 2024, February 2024 and March 2023.
\* ------------------------------------------------------------------------
InitCashback ==
    /\ transactions \in SeqsUpTo(CashbackRows, MaxRows)
    /\ world = World(UserSettings, TRUE, TRUE)
    /\ call = NoCall
    /\ result = Returned([none |-> TRUE])
    /\ consulted = {}
    /\ effects = <<>>

NextCashback ==
    \E year \in {2023, 2024}, month \in {2, 3} : ProfitableCashbackCategories(year, month)

SpecCashback == InitCashback /\ [][NextCashback]_vars

\* --- the inputs of the search of transfers to persons --------------------
SearchRow(category, description) == [category |-> category, description |-> description]

Valerij == <<"CYR_V", "cyr_a", "cyr_l", "cyr_e", "cyr_r", "cyr_i", "cyr_j">>
Yana == <<"CYR_YA", "cyr_n", "cyr_a">>
ValerijA == Valerij \o <<" ", "CYR_A", ".">>
PerevodNaSchet ==
    <<"CYR_P", "cyr_e", "cyr_r", "cyr_e", "cyr_v", "cyr_o", "cyr_d", " ", "cyr_n", "cyr_a",
      " ", "cyr_s", "cyr_ch", "cyr_e", "cyr_t">>

PersonRows ==
    {SearchRow(CATEGORY_TRANSFERS, ValerijA),
     SearchRow("Supermarkety", ValerijA),
     SearchRow(CATEGORY_TRANSFERS, PerevodNaSchet),
     SearchRow(CATEGORY_TRANSFERS, <<" ">> \o Yana \o <<" ", "CYR_A", ".", " ", "\n">>),
     SearchRow(CATEGORY_TRANSFERS, Yana \o <<"\t", "CYR_A", ".">>),
     SearchRow(CATEGORY_TRANSFERS, Yana \o <<"NBSP", "CYR_A", ".">>),
     SearchRow(CATEGORY_TRANSFERS, Yana \o <<" ", " ", "CYR_A", ".">>),
     SearchRow(CATEGORY_TRANSFERS, <<"cyr_ya", "cyr_n", "cyr_a", " ", "CYR_A", ".">>),
     SearchRow(CATEGORY_TRANSFERS, Yana \o <<" ", "cyr_a", ".">>),
     SearchRow(CATEGORY_TRANSFERS, Yana \o <<" ", "CYR_A">>),
     SearchRow(CATEGORY_TRANSFERS, Yana \o <<" ", "CYR_A", ".", "!">>),
     SearchRow(CATEGORY_TRANSFERS, <<"Y", "a", "n", "a", " ", "A", ".">>),
     SearchRow(CATEGORY_TRANSFERS, <<"CYR_YA", "CYR_N", "CYR_A", " ", "CYR_A", ".">>),
     SearchRow(CATEGORY_TRANSFERS, <<>>)}

\* ------------------------------------------------------------------------
\* Specification of the search of transfers to persons: every list of at
\* most MaxRows transactions.
\* ------------------------------------------------------------------------
InitPerson ==
    /\ transactions \in SeqsUpTo(PersonRows, MaxRows)
    /\ world = World(UserSettings, TRUE, TRUE)
    /\ call = NoCall
    /\ result = Returned([none |-> TRUE])
    /\ consulted = {}
    /\ effects = <<>>

NextPerson == SearchPersonTransfers

SpecPerson == InitPerson /\ [][NextPerson]_vars

\* --- the inputs of the search by phone -----------------------------------
Popolnenie ==
    <<"CYR_P", "cyr_o", "cyr_p", "cyr_o", "cyr_l", "cyr_n", "cyr_e", "cyr_n", "cyr_i", "cyr_e">>
Oplata == <<"CYR_O", "cyr_p", "cyr_l", "cyr_a", "cyr_t", "cyr_a">>
Perevod == <<"CYR_P", "cyr_e", "cyr_r", "cyr_e", "cyr_v", "cyr_o", "cyr_d">>
\* "Пополнение +7 921 11-22-33", "Оплата +7 995 555-55-55" and
\* "Перевод +7 900 1234567".
PhoneDocExample ==
    Popolnenie \o <<" ", "+", "7", " ", "9", "2", "1", " ", "1", "1", "-", "2", "2", "-", "3", "3">>
PhoneDashed ==
    Oplata \o <<" ", "+", "7", " ", "9", "9", "5", " ", "5", "5", "5", "-", "5", "5", "-", "5", "5">>
PhoneSolid ==
    Perevod \o <<" ", "+", "7", " ", "9", "0", "0", " ", "1", "2", "3", "4", "5", "6", "7">>

PhoneRows ==
    {SearchRow("Popolneniya", PhoneDocExample),
     SearchRow("Uslugi", PhoneDashed),
     SearchRow(CATEGORY_TRANSFERS, PhoneSolid),
     SearchRow(CATEGORY_TRANSFERS, PerevodNaSchet),
     SearchRow("Uslugi", <<"+", "7", "9", "0", "0", "1", "2", "3", "4", "5", "6", "7">>),
     SearchRow("Uslugi", <<"8", " ", "9", "0", "0", " ", "1", "2", "3", "4", "5", "6", "7">>),
     SearchRow("Uslugi", <<"+", "7", " ", "9", "0", "0", " ", "1", "2", "3", "-", "4", "5", "-", "6">>),
     SearchRow("Uslugi", <<>>)}

\* ------------------------------------------------------------------------
\* Specification of the search by phone: every list of at most MaxRows
\* transactions.
\* ------------------------------------------------------------------------
InitPhone ==
    /\ transactions \in SeqsUpTo(PhoneRows, MaxRows)
    /\ world = World(UserSettings, TRUE, TRUE)
    /\ call = NoCall
    /\ result = Returned([none |-> TRUE])
    /\ consulted = {}
    /\ effects = <<>>

NextPhone == SearchByPhone

SpecPhone == InitPhone /\ [][NextPhone]_vars

\* --- the inputs of the simple search -------------------------------------
Lenta == <<"CYR_L", "cyr_e", "cyr_n", "cyr_t", "cyr_a">>
LENTA == <<"CYR_L", "CYR_E", "CYR_N", "CYR_T", "CYR_A">>
Eda == <<"CYR_E", "cyr_d", "cyr_a">>

SimpleRows ==
    {SearchRow(Text(Eda), Text(Lenta)),
     SearchRow(Text(Eda), Text(LENTA \o <<" ", "2">>)),
     SearchRow(Text(Lower(Lenta)), Text(Perevod)),
     SearchRow(MissingText, Text(Perevod)),
     SearchRow(Text(Eda), MissingText),
     SearchRow(Text(Eda), Text(<<"B", "a", "n", "a", "n", "a">>))}

SimpleQueries ==
    {Lenta, Lower(Lenta), LENTA, <<>>, <<"n", "a", "n">>, <<"N", "A", "N">>,
     <<"cyr_e", "cyr_n", "cyr_t">>, <<"x", "y", "z">>}

\* ------------------------------------------------------------------------
\* Specification of the simple search: every list of at most MaxRows
\* transactions, every query.
\* ------------------------------------------------------------------------
InitSimple ==
    /\ transactions \in SeqsUpTo(SimpleRows, MaxRows)
    /\ world = World(UserSettings, TRUE, TRUE)
    /\ call = NoCall
    /\ result = Returned([none |-> TRUE])
    /\ consulted = {}
    /\ effects = <<>>

NextSimple == \E query \in SimpleQueries : SimpleSearch(query)

SpecSimple == InitSimple /\ [][NextSimple]_vars

\* --- the inputs of the provider -------------------------------------------
SettingsFiles ==
    {[state |-> "missing", settings |-> NoKeys],
     [state |-> "bad_json", settings |-> NoKeys],
     [state |-> "ok", settings |-> NoKeys],
     [state |-> "ok", settings |-> [user_currencies |-> <<"USD">>, user_stocks |-> <<"AAPL", "AMZN">>]]}

\* What the request of the rates ends with: an error of the network, a
\* status of error, a body that is no JSON, a JSON without rates, or the
\* rates of some currencies.
RateResponses ==
    {[kind |-> k, have |-> {}] : k \in {"network_error", "http_error", "bad_json", "other_json"}}
    \cup {[kind |-> "rates", have |-> {"USD", "EUR"}], [kind |-> "rates", have |-> {"USD"}],
          [kind |-> "conversion_rates", have |-> {"USD", "EUR"}]}

CurrencyEnvs ==
    {[api_url |-> u, api_key |-> k, response |-> r] :
        u \in {"exchangerate-api.com", "api.test.com"},
        k \in {"missing", "placeholder", "set"}, r \in RateResponses}

StockEnvs ==
    {[api_key |-> k, responses |-> r] :
        k \in {"missing", "placeholder", "set"},
        r \in [{"AAPL", "AMZN"} -> {"quote", "network_error", "bad_json", "no_price"}]}

ProviderArgs(fn) ==
    IF fn = "load_user_settings" THEN {[file |-> f] : f \in SettingsFiles}
    ELSE IF fn = "get_currency_rates"
    THEN {[symbols |-> s, currency_env |-> e] :
             s \in {<<>>, <<"USD">>, <<"USD", "EUR">>}, e \in CurrencyEnvs}
    ELSE IF fn = "get_stock_prices"
    THEN {[symbols |-> s, stock_env |-> e] :
             s \in {<<>>, <<"AAPL">>, <<"AAPL", "AMZN">>}, e \in StockEnvs}
    ELSE {[file |-> f, currency_env |-> c, stock_env |-> s] :
             f \in SettingsFiles,
             c \in {e \in CurrencyEnvs : e.api_url = "api.test.com" /\ e.api_key # "placeholder"
                                         /\ e.response.kind \in {"network_error", "rates"}},
             s \in {e \in StockEnvs : e.api_key # "placeholder"
                                      /\ e.responses["AAPL"] = "quote"}}

\* ------------------------------------------------------------------------
\* Specification of the provider: any sequence of calls of the settings
\* store, the provider and the pages, the caller modifying what it was
\* handed, at most MaxAppends items in a list.
\* ------------------------------------------------------------------------
InitProvider ==
    /\ transactions = <<>>
    /\ world = PristineObjects
    /\ call = NoCall
    /\ result = Returned([none |-> TRUE])
    /\ consulted = {}
    /\ effects = <<>>

NextProvider ==
    \/ \E fn \in {"load_user_settings", "get_currency_rates", "get_stock_prices",
                  "home_page", "events_page"} :
           \E args \in ProviderArgs(fn) : ProviderCall(fn, args)
    \/ \E field \in {"", "currency_rates", "stock_prices"} : CallerModifies(field)

SpecProvider == InitProvider /\ [][NextProvider]_vars

\* ------------------------------------------------------------------------
\* Specification of the handlers as callers of one dataset: every dataset of
\* at most MaxRows report rows, the pages and the reports with dates that
\* parse and dates that do not, with and without a directory for the report.
\* ------------------------------------------------------------------------
InitFrames ==
    /\ transactions \in SeqsUpTo(ReportRows, MaxRows)
    /\ world \in {ReportWorld(mkdir, "ok", "ok") @@ World(UserSettings, TRUE, FALSE) :
                     mkdir \in {"ok", "PermissionError"}}
    /\ call = NoCall
    /\ result = Returned([none |-> TRUE])
    /\ consulted = {}
    /\ effects = <<>>

NextFrames ==
    \/ \E date \in {IsoDate(2024, 3, 15), OtherText}, period \in {"M", "ALL"} :
           EventsPage(date, period, NoDate, NoDate, <<>>)
    \/ \E date_time \in {IsoDateTime(2024, 3, 15, 10, 0, 0), OtherText} : HomePage(date_time)
    \/ \E category \in {"food", "fuel"}, date \in {IsoDate(2024, 3, 15), OtherText} :
           SpendingByCategory(category, date)
    \/ \E date \in {IsoDate(2024, 3, 15), OtherText} : SpendingByWeekday(date)
    \/ \E date \in {IsoDate(2024, 3, 15), OtherText} : SpendingByWorkday(date)

SpecFrames == InitFrames /\ [][NextFrames]_vars


\* --- the inputs of the period nesting --------------------------------------
\* Rows before the floor of ALL and on it; before the year, in the year
\* before the month, in the week before the month, in the month, after the
\* reference day; expenses and an income, two cards.
NestingRows ==
    {Row(<<1999, 12, 30, 12, 0, 0>>, Card7197, "OK", -(7 * Scale + 1), "k1", "before the floor"),
     Row(<<2000, 1, 1, 0, 0, 0>>, Card7197, "OK", -(5 * Scale), "k2", "on the floor"),
     Row(<<2023, 12, 30, 12, 0, 0>>, Card7197, "OK", -(9 * Scale + 2), "k1", "last year"),
     Row(<<2024, 1, 15, 12, 0, 0>>, Card7197, "OK", -(4 * Scale + 3), "k2", "in the year"),
     Row(<<2024, 2, 29, 12, 0, 0>>, Card5814, "OK", -(6 * Scale), "k3", "in the week"),
     Row(<<2024, 3, 1, 0, 0, 0>>, Card7197, "OK", 8 * Scale + 1, "j2", "in the month"),
     Row(<<2024, 3, 6, 0, 0, 0>>, Card7197, "OK", -(20 * Scale), "k3", "the day after")}

\* Two expenses of the year, before the month, that add up to a whole number,
\* with doubles that fall short of it.
NestingBase ==
    <<Row(<<2024, 1, 20, 12, 0, 0>>, Card7197, "OK", -(Scale - 1), "k4", "january"),
      Row(<<2024, 2, 10, 12, 0, 0>>, Card7197, "OK", -1, "k4", "february")>>

NestingDates == {IsoDate(2000, 1, 3), IsoDate(2000, 1, 7), IsoDate(2024, 3, 5)}

\* ------------------------------------------------------------------------
\* Specification of the period nesting: the empty or the base dataset with
\* at most MaxRows rows appended, every standard period on every reference
\* day, with and without a card filter.
\* ------------------------------------------------------------------------
InitNesting ==
    /\ \E base \in {<<>>, NestingBase}, more \in SeqsUpTo(NestingRows, MaxRows) :
           /\ transactions = base \o more
           /\ world = [World(UserSettings, TRUE, FALSE) EXCEPT !.short = base # <<>>]
    /\ call = NoCall
    /\ result = Returned([none |-> TRUE])
    /\ consulted = {}
    /\ effects = <<>>

NextNesting ==
    \E date \in NestingDates, period \in {"W", "M", "Y", "ALL"},
       card_filter \in {<<>>, <<"7", "1", "9", "7">>} :
        EventsPage(date, period, NoDate, NoDate, card_filter)

SpecNesting == InitNesting /\ [][NextNesting]_vars


\* --- the inputs of the time of day ------------------------------------------
\* Rows at the last second before the month, at its first second, in the
\* morning, the afternoon and the evening of the reference day, at its last
\* second and at the first second of the next day; two cards, an income.
TimedRows ==
    {Row(<<2024, 2, 29, 23, 59, 59>>, Card7197, "OK", -(30 * Scale), "shop", "t1"),
     Row(<<2024, 3, 1, 0, 0, 0>>, Card7197, "OK", -(12 * Scale + 1), "shop", "t2"),
     Row(<<2024, 3, 5, 8, 0, 0>>, Card5814, "OK", -(9 * Scale), "shop", "t3"),
     Row(<<2024, 3, 5, 14, 30, 0>>, Card7197, "OK", 14 * Scale + 2, "shop", "t4"),
     Row(<<2024, 3, 5, 20, 15, 0>>, Card5814, "OK", -(21 * Scale + 3), "shop", "t5"),
     Row(<<2024, 3, 5, 23, 59, 59>>, Card7197, "OK", -(9 * Scale), "shop", "t6"),
     Row(<<2024, 3, 6, 0, 0, 0>>, Card5814, "OK", -(50 * Scale), "shop", "t7")}

\* Times of day: midnight, the morning, the afternoon, the last second.
TimesOfDay == {<<0, 0, 0>>, <<8, 0, 0>>, <<14, 30, 0>>, <<23, 59, 59>>}

\* ------------------------------------------------------------------------
\* Specification of the time of day: every dataset of at most MaxRows timed
\* rows, home_page at every time of day of 2024-03-05, the quote requests
\* succeeding or failing.
\* ------------------------------------------------------------------------
InitTimes ==
    /\ transactions \in SeqsUpTo(TimedRows, MaxRows)
    /\ world \in {World(UserSettings, TRUE, TRUE), World(UserSettings, TRUE, FALSE)}
    /\ call = NoCall
    /\ result = Returned([none |-> TRUE])
    /\ consulted = {}
    /\ effects = <<>>

NextTimes ==
    \E t \in TimesOfDay : HomePage(IsoDateTime(2024, 3, 5, t[1], t[2], t[3]))

SpecTimes == InitTimes /\ [][NextTimes]_vars
\* ------------------------------------------------------------------------
\* Vocabulary of the properties
\* ------------------------------------------------------------------------
IsEvents == call.fn = "events_page"
IsHome == call.fn = "home_page"

\* A text names a calendar day (and, for a date-time, a time of day).
NamesDay(s) == s.fmt = "iso" /\ s.m \in 1..12 /\ s.d \in 1..DaysInMonth(s.y, s.m)
NamesDayTime(s) == NamesDay(s) /\ s.hh \in 0..23 /\ s.mi \in 0..59 /\ s.ss \in 0..59

StandardPeriods == {"W", "M", "Y", "ALL"}

\* A point in time as (day number, second of the day).
Seconds(t) == <<ToOrdinal(t[1], t[2], t[3]), 3600 * t[4] + 60 * t[5] + t[6]>>
NotAfter(a, b) ==
    LET ka == Seconds(a)
        kb == Seconds(b)
    IN  ka[1] < kb[1] \/ (ka[1] = kb[1] /\ ka[2] <= kb[2])
Within(t, start, end) == t # NaT /\ NotAfter(start, t) /\ NotAfter(t, end)

\* The window the period table gives for a call with arguments that parse.
TableStart(c) ==
    IF c.period = "W" THEN DaysBack(<<c.date.y, c.date.m, c.date.d>>, 6)
    ELSE IF c.period = "M" THEN <<c.date.y, c.date.m, 1, 0, 0, 0>>
    ELSE IF c.period = "Y" THEN <<c.date.y, 1, 1, 0, 0, 0>>
    ELSE IF c.period = "ALL" THEN <<2000, 1, 1, 0, 0, 0>>
    ELSE <<c.start_date.y, c.start_date.m, c.start_date.d, 0, 0, 0>>
TableEnd(c) ==
    IF c.period = "CUSTOM"
    THEN <<c.end_date.y, c.end_date.m, c.end_date.d, 23, 59, 59>>
    ELSE <<c.date.y, c.date.m, c.date.d, 23, 59, 59>>

\* The call is one the period table covers.
TableCall(c) ==
    /\ c.fn = "events_page"
    /\ \/ c.period \in StandardPeriods /\ NamesDay(c.date)
       \/ c.period = "CUSTOM" /\ NamesDay(c.start_date) /\ NamesDay(c.end_date)

\* The OK rows of a dataset inside a window.
RowsWithin(df, start, end) ==
    SelectSeq(df, LAMBDA r : r.status = "OK" /\ Within(r.date, start, end))

\* The expenses and income of an events_page result are those of the rows.
AggregatesOf(v, rows) ==
    \E a \in EventsAggregates(rows, world.short) : v.expenses = a.expenses /\ v.income = a.income

\* A row shows in an events_page result (by its category) or in a home_page
\* result (by its description among the top transactions).
ShowsInEvents(r, v) ==
    \/ \E i \in DOMAIN v.expenses.main : v.expenses.main[i].category = r.category
    \/ \E i \in DOMAIN v.income.main : v.income.main[i].category = r.category
ShowsInHome(r, v) ==
    \E i \in DOMAIN v.top_transactions : v.top_transactions[i].description = r.description
Shows(r) ==
    IF IsEvents THEN ShowsInEvents(r, result.value) ELSE ShowsInHome(r, result.value)

\* The call is a MONTH window ending on a calendar day: events_page(d, "M")
\* or home_page("d HH:MM:SS").
MonthCall ==
    \/ IsEvents /\ call.period = "M" /\ NamesDay(call.date)
    \/ IsHome /\ NamesDayTime(call.date)
LastSecond == <<call.date.y, call.date.m, call.date.d, 23, 59, 59>>
MonthFirstSecond == <<call.date.y, call.date.m, 1, 0, 0, 0>>

\* ------------------------------------------------------------------------
\* C1: in a MONTH window ending on day d (events_page(d, "M"), home_page of
\* any time on d) an OK transaction at 23:59:59 on d is included, one at
\* 00:00:00 of the next day is excluded, one at 00:00:00 of the first day of
\* d's month is included.
\* ------------------------------------------------------------------------
C1_WindowInclusive ==
    MonthCall =>
        \A i \in DOMAIN transactions :
            LET r == transactions[i] IN
            r.status = "OK" =>
                /\ r.date = LastSecond => Shows(r)
                /\ r.date = NextSecond(LastSecond) => ~Shows(r)
                /\ r.date = MonthFirstSecond => Shows(r)

C1_Witness ==
    /\ MonthCall
    /\ \E i, j \in DOMAIN transactions :
           /\ transactions[i].status = "OK" /\ transactions[i].date = LastSecond
           /\ transactions[j].status = "OK" /\ transactions[j].date = NextSecond(LastSecond)
           /\ Shows(transactions[i]) /\ ~Shows(transactions[j])

Missing(s) == s.fmt \in {"none", "empty"}

BadEventsCall ==
    /\ IsEvents
    /\ \/ call.period \notin (StandardPeriods \cup {"CUSTOM"})
       \/ call.period = "CUSTOM" /\ (Missing(call.start_date) \/ Missing(call.end_date))
       \/ call.period = "CUSTOM" /\ (~NamesDay(call.start_date) \/ ~NamesDay(call.end_date))
       \/ call.period # "CUSTOM" /\ ~NamesDay(call.date)

BadHomeCall == IsHome /\ ~NamesDayTime(call.date)

Greetings == {"Dobroe utro", "Dobryj den", "Dobryj vecher", "Dobroj nochi"}

C3_NeverRaises ==
    /\ (IsEvents \/ IsHome) => ~result.raised
    /\ BadEventsCall => ~result.raised /\ result.value = EmptyEvents
    /\ BadHomeCall =>
           /\ ~result.raised
           /\ result.value.greeting \in Greetings
           /\ result.value.cards = <<>>
           /\ result.value.top_transactions = <<>>
           /\ result.value.currency_rates = <<>>
           /\ result.value.stock_prices = <<>>

\* A call with None for the date on a dataset with an OK row.
C3_Witness ==
    /\ BadEventsCall /\ call.date.fmt = "none"
    /\ \E i \in DOMAIN transactions : transactions[i].status = "OK"
    /\ result.value = EmptyEvents

\* ------------------------------------------------------------------------
\* C4: rows whose status is not OK take no part: the aggregates of a call
\* (expenses and income of events_page, cards and top_transactions of
\* home_page) are those of the same call on the dataset without its rows of
\* another status, so that adding, removing or changing such rows changes
\* none of them.
\* ------------------------------------------------------------------------
OKRows(df) == SelectSeq(df, LAMBDA r : r.status = "OK")

EventsParts(df, c) ==
    {[expenses |-> o.value.expenses, income |-> o.value.income] :
        o \in events_page(df, world, c.date, c.period, c.start_date, c.end_date,
                          c.card_filter)}
HomeParts(df, c) ==
    {[cards |-> o.value.cards, top_transactions |-> o.value.top_transactions] :
        o \in home_page(df, world, c.date)}

C4_OnlyOKRows ==
    /\ IsEvents =>
           /\ [expenses |-> result.value.expenses, income |-> result.value.income]
                  \in EventsParts(OKRows(transactions), call)
           /\ EventsParts(transactions, call) = EventsParts(OKRows(transactions), call)
    /\ IsHome =>
           /\ [cards |-> result.value.cards,
               top_transactions |-> result.value.top_transactions]
                  \in HomeParts(OKRows(transactions), call)
           /\ HomeParts(transactions, call) = HomeParts(OKRows(transactions), call)

\* A call whose window holds a row of another status next to an OK row.
C4_Witness ==
    /\ MonthCall
    /\ \E i, j \in DOMAIN transactions :
           /\ transactions[i].status # "OK" /\ transactions[i].date = LastSecond
           /\ transactions[j].status = "OK" /\ transactions[j].date = LastSecond
           /\ Shows(transactions[j]) /\ ~Shows(transactions[i])

\* ------------------------------------------------------------------------
\* Vocabulary of the rollup properties
\* ------------------------------------------------------------------------
\* A card id without its '*', and its last 4 characters (all of them when
\* there are fewer).
Unstarred(card) == SelectSeq(card, LAMBDA ch : ch # "*")
TailOfCard(card) ==
    LET u == Unstarred(card)
        n == IF Len(u) < 4 THEN Len(u) ELSE 4
    IN  [i \in 1..n |-> u[Len(u) - n + i]]

\* The rows a call of the period table keeps: status OK, inside the window,
\* and of the card asked for when a card filter is given.
Kept ==
    SelectSeq(RowsWithin(transactions, TableStart(call), TableEnd(call)),
              LAMBDA r : call.card_filter = <<>>
                         \/ (r.card # NaNCard /\ TailOfCard(r.card) = call.card_filter))

\* Spend and gain of a category: the sums over its rows of amount < 0 (as a
\* positive number) and of amount > 0, in 1/Scale rubles.
Spend(rows, c) == -SumAmounts(SelectSeq(rows, LAMBDA r : r.category = c /\ r.amount < 0))
Gain(rows, c) == SumAmounts(SelectSeq(rows, LAMBDA r : r.category = c /\ r.amount > 0))

\* The spend of every expense category, and its sum over a set of them.
SpendBy(rows) ==
    [c \in {r.category : r \in {x \in Range(rows) : x.amount < 0}} |-> Spend(rows, c)]
GainBy(rows) ==
    [c \in {r.category : r \in {x \in Range(rows) : x.amount > 0}} |-> Gain(rows, c)]

RECURSIVE SumOver(_, _)
SumOver(f, S) ==
    IF S = {} THEN 0
    ELSE LET c == CHOOSE x \in S : TRUE IN f[c] + SumOver(f, S \ {c})

Expenses(rows) == SelectSeq(rows, LAMBDA r : r.amount < 0)
Incomes(rows) == SelectSeq(rows, LAMBDA r : r.amount > 0)

ExpenseCategories(rows) ==
    {r.category : r \in {x \in Range(rows) : x.amount < 0}} \ {NaNCategory}
IncomeCategories(rows) ==
    {r.category : r \in {x \in Range(rows) : x.amount > 0}} \ {NaNCategory}
TransfersCash == {"Perevody", "Nalichnye"}
RankedCategories(rows) == ExpenseCategories(rows) \ TransfersCash

\* n is x/Scale rubles cut to an integer (x >= 0).
Truncates(n, x) == n * Scale <= x /\ x < (n + 1) * Scale

Main == result.value.expenses.main
CategoriesIn(entries) == {entries[i].category : i \in DOMAIN entries}
SumEmitted(entries) == SumSeq([i \in DOMAIN entries |-> entries[i].amount])

\* ------------------------------------------------------------------------
\* C5: "Perevody" and "Nalichnye" never appear in expenses.main and never
\* count in the "Ostalnoe" amount; each of them with a kept expense row
\* appears in transfers_and_cash with the truncated sum of its expenses,
\* "Perevody" first.
\* ------------------------------------------------------------------------
C5_TransfersAndCashApart ==
    TableCall(call) =>
        LET kept == Kept
            spend == SpendBy(kept)
            rest == RankedCategories(kept) \ CategoriesIn(Main)
            present == SelectSeq(<<"Perevody", "Nalichnye">>,
                                 LAMBDA c : c \in ExpenseCategories(kept))
        IN  /\ \A i \in DOMAIN Main : Main[i].category \notin TransfersCash
            /\ \A i \in DOMAIN Main :
                   Main[i].category = "Ostalnoe" =>
                       Truncates(Main[i].amount, SumOver(spend, rest))
            /\ result.value.expenses.transfers_and_cash =
                   [i \in DOMAIN present |->
                       [category |-> present[i], amount |-> spend[present[i]] \div Scale]]

\* Transfers larger than every other category next to an "Ostalnoe" entry.
C5_Witness ==
    /\ TableCall(call)
    /\ "Ostalnoe" \in CategoriesIn(Main)
    /\ "Perevody" \in CategoriesIn(result.value.expenses.transfers_and_cash)
    /\ \A i \in DOMAIN Main :
           Main[i].amount < result.value.expenses.transfers_and_cash[1].amount

\* ------------------------------------------------------------------------
\* C6: expenses.main lists, in descending order of spend, the 7 largest
\* expense categories other than "Perevody"/"Nalichnye" (all of them when
\* there are 7 or fewer); the further ones are summed into one trailing
\* "Ostalnoe" entry, present only if that sum is > 0; at most 8 entries.
\* ------------------------------------------------------------------------
C6_TopSevenAndOther ==
    TableCall(call) =>
        LET kept == Kept
            spend == SpendBy(kept)
            cats == RankedCategories(kept)
            n == Cardinality(cats)
            m == IF n < 7 THEN n ELSE 7
            rest == cats \ {Main[i].category : i \in 1..m}
        IN  /\ Len(Main) = (IF n > 7 THEN 8 ELSE n)
            /\ Len(Main) <= 8
            /\ \A i \in 1..m :
                   /\ Main[i].category \in cats
                   /\ Main[i].amount = spend[Main[i].category] \div Scale
                   /\ \A j \in (i + 1)..m :
                          /\ Main[i].category # Main[j].category
                          /\ spend[Main[i].category] >= spend[Main[j].category]
                   /\ \A c \in rest : spend[Main[i].category] >= spend[c]
            /\ n > 7 =>
                   /\ SumOver(spend, rest) > 0
                   /\ Main[8] = [category |-> "Ostalnoe",
                                 amount |-> SumOver(spend, rest) \div Scale]

\* Nine ranked categories: seven listed and two summed.
C6_Witness ==
    /\ TableCall(call)
    /\ Cardinality(RankedCategories(Kept)) = 9
    /\ Len(Main) = 8
    /\ Main[8].category = "Ostalnoe"

HomeRows ==
    RowsWithin(transactions, <<call.date.y, call.date.m, 1, 0, 0, 0>>,
               <<call.date.y, call.date.m, call.date.d, 23, 59, 59>>)

C10_CardFilter ==
    /\ (TableCall(call) /\ call.card_filter # <<>>) =>
           AggregatesOf(result.value, Kept)
    /\ (IsHome /\ NamesDayTime(call.date)) =>
           LET cards == result.value.cards
               ids == {r.card : r \in Range(HomeRows)} \ {NaNCard}
           IN  /\ Len(cards) = Cardinality(ids)
               /\ {cards[i].last_digits : i \in DOMAIN cards} = {TailOfCard(c) : c \in ids}
               /\ Card7197 \in ids =>
                      \E i \in DOMAIN cards : cards[i].last_digits = <<"7", "1", "9", "7">>
               /\ CardUnmasked \in ids =>
                      \E i \in DOMAIN cards : cards[i].last_digits = <<"7", "8", "9", "0">>

\* A filter that keeps the rows of a card shorter than 4 and drops others.
C10_Witness ==
    /\ TableCall(call)
    /\ call.card_filter = <<"1", "2">>
    /\ Len(Kept) > 0
    /\ Len(Kept) < Len(transactions)
    /\ Len(Main) = 1

\* ------------------------------------------------------------------------
\* Vocabulary of the home_page claims
\* ------------------------------------------------------------------------
HomeCall == IsHome /\ NamesDayTime(call.date)
Cards == result.value.cards
Top == result.value.top_transactions

\* The card ids of rows, a missing id not being one.
CardIds(rows) == {r.card : r \in Range(rows)} \ {NaNCard}
\* The exact spend of a card over rows, in 1/Scale rubles.
CardSpend(rows, c) ==
    -SumAmounts(SelectSeq(rows, LAMBDA r : r.card = c /\ r.amount < 0))
\* An amount of x/Scale rubles in hundredths of a ruble, to the nearest.
Hundredths(x) == (200 * x + Scale) \div (2 * Scale)

\* ------------------------------------------------------------------------
\* C11: cards of home_page has exactly one entry for each card id with at
\* least one filtered row of amount < 0, with total_spent the absolute sum of
\* that card's expenses and cashback 1% of total_spent, both >= 0; a card
\* whose filtered rows are all income or zero has no entry.
\* ------------------------------------------------------------------------
C11_CardsPerExpenseCard ==
    HomeCall =>
        LET rows == HomeRows
            ids == CardIds(SelectSeq(rows, LAMBDA r : r.amount < 0))
        IN  /\ Len(Cards) = Cardinality(ids)
            /\ \A c \in ids :
                   \E i \in DOMAIN Cards :
                       /\ Cards[i].last_digits = TailOfCard(c)
                       /\ Cards[i].total_spent = Hundredths(CardSpend(rows, c))
            /\ \A i \in DOMAIN Cards :
                   /\ Cards[i].total_spent >= 0
                   /\ Cards[i].cashback >= 0
                   /\ 100 * Cards[i].cashback - Cards[i].total_spent \in -50..50

\* ------------------------------------------------------------------------
\* C12: cards of home_page is in non-increasing order of total_spent, and
\* cards of equal total_spent come in ascending natural order of their card
\* id, whatever the order of the rows in the dataset.
\* ------------------------------------------------------------------------
\* The card ids of the datasets in their natural (code point) order.
CardsInOrder == <<CardShort, Card5814, Card7197, CardUnmasked>>
CardRank(c) == CHOOSE i \in DOMAIN CardsInOrder : CardsInOrder[i] = c
\* The card id an entry of cards stands for.
CardOf(entry) == CHOOSE c \in Range(CardsInOrder) : TailOfCard(c) = entry.last_digits

C12_CardsOrder ==
    HomeCall =>
        \A i \in DOMAIN Cards : \A j \in (i + 1)..Len(Cards) :
            /\ Cards[i].total_spent >= Cards[j].total_spent
            /\ Cards[i].total_spent = Cards[j].total_spent =>
                   CardRank(CardOf(Cards[i])) < CardRank(CardOf(Cards[j]))

\* Two cards of equal spend, the rows of the greater card id first in the
\* dataset, after a card that spent more.
C12_Witness ==
    /\ HomeCall
    /\ \E i \in 2..(Len(Cards) - 1) :
           /\ Cards[1].total_spent > Cards[i].total_spent
           /\ Cards[i].total_spent = Cards[i + 1].total_spent
           /\ Cards[i].total_spent > 0
           /\ \E k \in DOMAIN transactions : \E l \in (k + 1)..Len(transactions) :
                  /\ transactions[k].card = CardOf(Cards[i + 1])
                  /\ transactions[l].card = CardOf(Cards[i])

\* ------------------------------------------------------------------------
\* C13: top_transactions of home_page has min(5, number of filtered rows)
\* entries, taken from all filtered rows, income and expenses alike, in
\* non-increasing order of absolute amount, each amount with its sign; no
\* filtered row left out has a larger absolute amount than a listed entry.
\* ------------------------------------------------------------------------
\* A signed amount of x/Scale rubles in hundredths of a ruble.
SignedHundredths(x) == IF x >= 0 THEN Hundredths(x) ELSE -Hundredths(-x)
Occurrences(seq, P(_)) == Cardinality({i \in DOMAIN seq : P(seq[i])})

C13_TopTransactions ==
    HomeCall =>
        LET rows == HomeRows
        IN  /\ Len(Top) = (IF Len(rows) < 5 THEN Len(rows) ELSE 5)
            /\ \A i \in DOMAIN Top :
                   /\ \E k \in DOMAIN rows :
                          /\ Top[i].description = rows[k].description
                          /\ Top[i].amount = SignedHundredths(rows[k].amount)
                   /\ Occurrences(Top, LAMBDA e : e.description = Top[i].description)
                          <= Occurrences(rows, LAMBDA r : r.description = Top[i].description)
                   /\ \A j \in (i + 1)..Len(Top) : Abs(Top[i].amount) >= Abs(Top[j].amount)
                   /\ \A k \in DOMAIN rows :
                          Hundredths(Abs(rows[k].amount)) > Abs(Top[i].amount) =>
                              \E j \in 1..(i - 1) : Top[j].description = rows[k].description

\* Six filtered rows: five listed, an income among them, one left out.
C13_Witness ==
    /\ HomeCall
    /\ Len(HomeRows) = 6
    /\ Len(Top) = 5
    /\ \E i \in DOMAIN Top : Top[i].amount > 0
    /\ \E i \in DOMAIN Top : Top[i].amount < 0

\* ------------------------------------------------------------------------
\* The greeting of an hour, as the table of hours gives it.
\* ------------------------------------------------------------------------
GreetingOfHour(h) ==
    IF 5 <= h /\ h <= 11 THEN "Dobroe utro"
    ELSE IF 12 <= h /\ h <= 16 THEN "Dobryj den"
    ELSE IF 17 <= h /\ h <= 21 THEN "Dobryj vecher"
    ELSE "Dobroj nochi"

\* ------------------------------------------------------------------------
\* C14: on an empty dataset, with a valid date and period, events_page
\* returns zero totals and empty lists, and home_page returns the greeting of
\* the hour with empty lists; neither consults the settings store or the
\* quote provider.
\* ------------------------------------------------------------------------
C14_EmptyDataset ==
    /\ (transactions = <<>> /\ TableCall(call)) =>
           /\ ~result.raised
           /\ result.value.expenses =
                  [total_amount |-> 0, main |-> <<>>, transfers_and_cash |-> <<>>]
           /\ result.value.income = [total_amount |-> 0, main |-> <<>>]
           /\ result.value.currency_rates = <<>>
           /\ result.value.stock_prices = <<>>
           /\ consulted = {}
    /\ (transactions = <<>> /\ HomeCall) =>
           /\ ~result.raised
           /\ result.value.greeting = GreetingOfHour(call.date.hh)
           /\ Cards = <<>>
           /\ Top = <<>>
           /\ result.value.currency_rates = <<>>
           /\ result.value.stock_prices = <<>>
           /\ consulted = {}

\* events_page on the empty dataset where the settings name a currency and
\* the quote provider would answer.
C14_Witness ==
    /\ transactions = <<>>
    /\ TableCall(call)
    /\ world = World(UserSettings, TRUE, TRUE)
    /\ result.value.currency_rates = <<>>
    /\ consulted = {}

\* ------------------------------------------------------------------------
\* C15: the greeting is "Dobroe utro" for the hours 5..11, "Dobryj den" for
\* 12..16, "Dobryj vecher" for 17..21 and "Dobroj nochi" for 22, 23 and 0..4;
\* home_page returns the greeting of the hour of its date_time.
\* ------------------------------------------------------------------------
C15_Greeting ==
    HomeCall =>
        /\ ~result.raised
        /\ result.value.greeting = GreetingOfHour(call.date.hh)
        /\ call.date.hh \in {5, 11} => result.value.greeting = "Dobroe utro"
        /\ call.date.hh \in {12, 16} => result.value.greeting = "Dobryj den"
        /\ call.date.hh \in {17, 21} => result.value.greeting = "Dobryj vecher"
        /\ call.date.hh \in {22, 4} => result.value.greeting = "Dobroj nochi"

\* The last minute of noon's hour on a dataset with rows.
C15_Witness ==
    /\ HomeCall
    /\ call.date.hh = 12
    /\ call.date.mi = 59
    /\ transactions # <<>>
    /\ result.value.greeting = "Dobryj den"

\* ------------------------------------------------------------------------
\* Vocabulary of the date utilities
\* ------------------------------------------------------------------------
IsMonthRange == call.fn = "get_month_range"
IsThreeMonths == call.fn = "get_three_months_back"
\* The number of days of a month, from the lengths of the twelve months.
MonthLengths == <<31, 28, 31, 30, 31, 30, 31, 31, 30, 31, 30, 31>>
LastDayOf(y, m) ==
    IF m = 2 /\ (y % 400 = 0 \/ (y % 4 = 0 /\ y % 100 # 0)) THEN 29 ELSE MonthLengths[m]
LastSecondOfMonth(y, m) == <<y, m, LastDayOf(y, m), 23, 59, 59>>
\* The month n months before month m of year y, as <<year, month>>.
MonthsBefore(y, m, n) ==
    LET idx == 12 * y + (m - 1) - n
    IN  <<idx \div 12, (idx % 12) + 1>>

\* ------------------------------------------------------------------------
\* C16: for every date, get_month_range returns the first day of the date's
\* month at 00:00:00 and the last day of that month at 23:59:59, for every
\* month length, for February of leap and other years (2024-02 ends on the
\* 29th, 2023-02 on the 28th) and for December.
\* ------------------------------------------------------------------------
C16_MonthRange ==
    IsMonthRange =>
        LET date == call.date
        IN  /\ ~result.raised
            /\ result.value[1] = <<date[1], date[2], 1, 0, 0, 0>>
            /\ result.value[2] = LastSecondOfMonth(date[1], date[2])
            /\ (date[1] = 2024 /\ date[2] = 2) => result.value[2] = <<2024, 2, 29, 23, 59, 59>>
            /\ (date[1] = 2023 /\ date[2] = 2) => result.value[2] = <<2023, 2, 28, 23, 59, 59>>
            /\ date[2] = 12 => result.value[2] = <<date[1], 12, 31, 23, 59, 59>>

\* ------------------------------------------------------------------------
\* C17: for every date, get_three_months_back returns as end the last second
\* of the date's month and as start 00:00:00 of the first day of the month 3
\* months before the date's month, in the previous year exactly when the
\* date's month is 1, 2 or 3 (2024-03-15 gives December 2023, 2024-01-15
\* gives October 2023); the start month is in 1..12 and start <= date <= end.
\* ------------------------------------------------------------------------
C17_ThreeMonthsBack ==
    IsThreeMonths =>
        LET date == call.date
            back == MonthsBefore(date[1], date[2], 3)
        IN  /\ ~result.raised
            /\ result.value[2] = LastSecondOfMonth(date[1], date[2])
            /\ result.value[1] = <<back[1], back[2], 1, 0, 0, 0>>
            /\ result.value[1][1] = (IF date[2] \in {1, 2, 3} THEN date[1] - 1 ELSE date[1])
            /\ result.value[1][2] \in 1..12
            /\ (date[1] = 2024 /\ date[2] = 3) => result.value[1] = <<2023, 12, 1, 0, 0, 0>>
            /\ (date[1] = 2024 /\ date[2] = 1) => result.value[1] = <<2023, 10, 1, 0, 0, 0>>
            /\ NotAfter(result.value[1], date)
            /\ NotAfter(date, result.value[2])

\* ------------------------------------------------------------------------
\* Vocabulary of the reports
\* ------------------------------------------------------------------------
ReportNames == {"spending_by_category", "spending_by_weekday", "spending_by_workday"}
IsReport == call.fn \in ReportNames
\* The reference day of a report call: the day named, or the clock's.
ReferenceDay == IF call.date.fmt = "none" THEN world.now ELSE <<call.date.y, call.date.m, call.date.d, 0, 0, 0>>
DatedReport == IsReport /\ (call.date.fmt = "none" \/ NamesDay(call.date))
\* The rows of status OK and amount < 0 inside the three months before the
\* reference day (of the category asked for, for spending_by_category).
Qualifying(df) ==
    LET back == MonthsBefore(ReferenceDay[1], ReferenceDay[2], 3)
        start == <<back[1], back[2], 1, 0, 0, 0>>
        end == LastSecondOfMonth(ReferenceDay[1], ReferenceDay[2])
    IN  SelectSeq(df, LAMBDA r :
            /\ r.status = "OK"
            /\ r.amount < 0
            /\ Within(r.date, start, end)
            /\ call.fn = "spending_by_category" => r.category = call.category)
\* The table a report makes of the rows it aggregates.
TableOf(rows) ==
    IF call.fn = "spending_by_category" THEN ByMonth(rows)
    ELSE IF call.fn = "spending_by_weekday" THEN ByWeekday(rows)
    ELSE ByDayType(rows)

\* ------------------------------------------------------------------------
\* C18: each report aggregates exactly the rows of status OK, amount < 0 and
\* operation date inside the three months before the reference date (and of
\* the category asked for): rows of another status, of amount >= 0 or outside
\* the period never change the result.
\* ------------------------------------------------------------------------
C18_ReportRows ==
    (DatedReport /\ ~result.raised) => result.value = TableOf(Qualifying(transactions))

\* ------------------------------------------------------------------------
\* C19: the save_report wrapper runs the wrapped report exactly once and
\* returns its result unchanged; a failure to make the directory, to open the
\* file or to serialize the result is logged and swallowed, never raised to
\* the caller.
\* ------------------------------------------------------------------------
C19_PersistenceSwallowed ==
    IsReport =>
        /\ ~result.raised
        /\ Cardinality({i \in DOMAIN effects : effects[i] = "func"}) = 1
        /\ result.value =
               (IF call.fn = "spending_by_category"
                THEN spending_by_category(transactions, world, call.category, call.date)
                ELSE IF call.fn = "spending_by_weekday"
                THEN spending_by_weekday(transactions, world, call.date)
                ELSE spending_by_workday(transactions, world, call.date))
        /\ (world.mkdir # "ok" \/ world.open # "ok" \/ world.dump # "ok") =>
               effects[Len(effects)] = "log_error"

\* ------------------------------------------------------------------------
\* Vocabulary of the round-up
\* ------------------------------------------------------------------------
IsInvest == call.fn = "investment_bank"
\* The month text has the form YYYY-MM and names a month of a year.
ValidMonth == call.month.fmt = "ym" /\ call.month.y \in 1..9999 /\ call.month.m \in 1..12
\* The transaction carries an operation date (a datetime, or a text
\* "dd.mm.YYYY HH:MM:SS" naming a real day) in the month asked for.
OfMonth(t) ==
    /\ t.date.fmt \in {"datetime", "dmy"}
    /\ t.date.m \in 1..12
    /\ t.date.d \in 1..LastDayOf(t.date.y, t.date.m)
    /\ t.date.y = call.month.y
    /\ t.date.m = call.month.m
\* The smallest multiple of L rubles that is >= a (a in 1/Scale rubles).
SmallestMultiple(a, L) ==
    LET multiples == {k * L * Scale : k \in 0..((a \div (L * Scale)) + 1)}
    IN  CHOOSE n \in multiples : n >= a /\ \A other \in multiples : other >= a => other >= n

IsCashback == call.fn = "profitable_cashback_categories"
\* The transaction has status OK and an operation date in the year and month
\* asked for.
QualifiesForCashback(t) ==
    /\ t.status = "OK"
    /\ t.date.fmt \in {"datetime", "dmy"}
    /\ t.date.m \in 1..12
    /\ t.date.d \in 1..LastDayOf(t.date.y, t.date.m)
    /\ t.date.y = call.year
    /\ t.date.m = call.month
\* The cashback a transaction counts for: a number, or 0 when there is none.
CountedCashback(t) == IF t.cashback.kind = "number" THEN t.cashback.value ELSE 0

\* ------------------------------------------------------------------------
\* C21: profitable_cashback_categories maps each non-empty category to the
\* sum of the cashback of the transactions with status OK whose operation
\* date lies in the year and month asked for; a transaction of another
\* status, month or year, with a missing date or a date of an unsupported
\* type never contributes, a missing or non-numeric cashback counts as 0,
\* and when no transaction qualifies the result is {}.
\* ------------------------------------------------------------------------
C21_CashbackByCategory ==
    IsCashback =>
        LET qualifying == SelectSeq(transactions, QualifiesForCashback)
            categories == {qualifying[i].category : i \in DOMAIN qualifying} \ {""}
            sum == [c \in categories |->
                       SumSeq([i \in DOMAIN qualifying |->
                                  IF qualifying[i].category = c
                                  THEN CountedCashback(qualifying[i]) ELSE 0])]
        IN  /\ ~result.raised
            /\ DOMAIN result.value = categories
            /\ \A c \in categories : result.value[c] = Number(sum[c])
            /\ qualifying = <<>> => result.value = <<>>

\* ------------------------------------------------------------------------
\* Vocabulary of the searches
\* ------------------------------------------------------------------------
\* The text without its surrounding whitespace.
Trimmed(s) ==
    LET inner == {i \in DOMAIN s : s[i] \notin Whitespace}
    IN  IF inner = {} THEN <<>>
        ELSE SubSeq(s, CHOOSE i \in inner : \A j \in inner : i <= j,
                       CHOOSE i \in inner : \A j \in inner : i >= j)
\* A capitalized Cyrillic word: a capital letter followed by small letters.
CapitalizedWord(w) ==
    /\ Len(w) >= 2
    /\ w[1] \in UpperCyrillic
    /\ \A i \in 2..Len(w) : w[i] \in LowerCyrillic
\* The text is a capitalized Cyrillic word, one separator of the set given,
\* one capital Cyrillic letter and a period.
NameAndInitial(s, separators) ==
    /\ Len(s) >= 5
    /\ CapitalizedWord(SubSeq(s, 1, Len(s) - 3))
    /\ s[Len(s) - 2] \in separators
    /\ s[Len(s) - 1] \in UpperCyrillic
    /\ s[Len(s)] = "."
\* The transactions found are, in input order, those with the category of
\* transfers and a description of the form of a name and an initial.
FoundPersons(separators) ==
    /\ ~result.raised
    /\ result.value.transactions =
           SelectSeq(transactions, LAMBDA t :
               /\ t.category = CATEGORY_TRANSFERS
               /\ NameAndInitial(Trimmed(t.description), separators))

HasPlusSeven(s) == \E i \in 1..(Len(s) - 1) : s[i] = "+" /\ s[i + 1] = "7"

\* ------------------------------------------------------------------------
\* C23: search_by_phone returns every transaction whose description holds a
\* mobile number written "+7" and its digit groups with optional separators,
\* in each written form of its documentation and tests: "Пополнение +7 921
\* 11-22-33" (the docstring example), "Оплата +7 995 555-55-55" and "Перевод
\* +7 900 1234567"; a transaction whose description has no "+7" is never
\* returned.
\* ------------------------------------------------------------------------
C23_PhoneForms ==
    call.fn = "search_by_phone" =>
        /\ ~result.raised
        /\ \A t \in Range(transactions) :
               /\ t.description \in {PhoneDocExample, PhoneDashed, PhoneSolid}
                      => t \in Range(result.value.transactions)
               /\ ~HasPlusSeven(t.description) => t \notin Range(result.value.transactions)

\* Two characters are the same letter when case is ignored.
SameLetter(a, b) ==
    a = b \/ \E p \in CasePairs : {a, b} = {p[1], p[2]}
\* The cell holds a text that contains the query, letter case ignored.
HoldsIgnoringCase(cell, query) ==
    /\ ~cell.missing
    /\ \E i \in 0..(Len(cell.text) - Len(query)) :
           \A k \in 1..Len(query) : SameLetter(cell.text[i + k], query[k])
\* The query in capital letters.
Upper(s) ==
    [i \in DOMAIN s |->
        IF \E p \in CasePairs : p[2] = s[i] THEN (CHOOSE p \in CasePairs : p[2] = s[i])[1]
        ELSE s[i]]

\* ------------------------------------------------------------------------
\* C24: simple_search returns, in input order, exactly the transactions whose
\* description or category contains the query as a substring when letter
\* case is ignored, so the same query in lower and upper case gives the same
\* transactions; an empty query returns no transactions rather than all of
\* them, and the returned query field is the query as given.
\* ------------------------------------------------------------------------
C24_SimpleSearch ==
    call.fn = "simple_search" =>
        /\ ~result.raised
        /\ result.value.query = call.query
        /\ call.query = <<>> => result.value.transactions = <<>>
        /\ call.query # <<>> =>
               result.value.transactions =
                   SelectSeq(transactions, LAMBDA t :
                       \/ HoldsIgnoringCase(t.description, call.query)
                       \/ HoldsIgnoringCase(t.category, call.query))
        /\ simple_search(Lower(call.query), transactions).transactions
               = simple_search(Upper(call.query), transactions).transactions

\* ------------------------------------------------------------------------
\* Vocabulary of the provider
\* ------------------------------------------------------------------------
JustReturned(fns) == call.fn \in fns /\ effects = <<"returned">>
\* The call met a failure: no API key where one is needed, an error on a
\* request, or a response that is not of the form expected.
QuoteFailure ==
    IF call.fn = "get_currency_rates"
    THEN \/ /\ call.args.currency_env.api_url # "exchangerate-api.com"
            /\ call.args.currency_env.api_key \in {"missing", "placeholder"}
         \/ call.args.currency_env.response.kind \notin {"rates", "conversion_rates"}
    ELSE \/ call.args.stock_env.api_key \in {"missing", "placeholder"}
         \/ \E s \in Range(call.args.symbols) : call.args.stock_env.responses[s] # "quote"

\* ------------------------------------------------------------------------
\* C25: the quote provider never raises to the caller, and get_currency_rates
\* and get_stock_prices both return [] on any failure: a missing API key, a
\* network error on a request, or a malformed response.
\* ------------------------------------------------------------------------
C25_EmptyOnFailure ==
    JustReturned({"get_currency_rates", "get_stock_prices"}) =>
        /\ ~result.raised
        /\ QuoteFailure => ContentsIn(result.value, world) = <<>>

\* ------------------------------------------------------------------------
\* C27: no mutable state is shared between calls: after any sequence of calls
\* to load_user_settings, get_currency_rates, get_stock_prices, home_page and
\* events_page in which the caller also modifies values returned to it, a
\* later call that fails or has nothing to report still returns an empty list
\* or dict, and every result depends only on that call's own inputs.
\* ------------------------------------------------------------------------
C27_NoSharedState ==
    /\ JustReturned({"load_user_settings"}) =>
           ContentsIn(result.value, world) =
               ContentsIn(LoadSettings(call.args.file), PristineObjects)
    /\ JustReturned({"get_currency_rates"}) =>
           ContentsIn(result.value, world) =
               ContentsIn(CurrencyRates(call.args.symbols, call.args.currency_env),
                          PristineObjects)
    /\ JustReturned({"get_stock_prices"}) =>
           ContentsIn(result.value, world) =
               ContentsIn(StockPrices(call.args.symbols, call.args.stock_env), PristineObjects)
    /\ JustReturned({"home_page", "events_page"}) =>
           LET alone == PageQuotes(call.args.file, call.args.currency_env,
                                   call.args.stock_env, PristineObjects)
           IN  /\ ContentsIn(result.value.currency_rates, world)
                      = ContentsIn(alone.currency_rates, PristineObjects)
               /\ ContentsIn(result.value.stock_prices, world)
                      = ContentsIn(alone.stock_prices, PristineObjects)

\* ------------------------------------------------------------------------
\* C26: no aggregation function mutates its input: after any call to
\* home_page, events_page, spending_by_category, spending_by_weekday or
\* spending_by_workday, whether it succeeds or fails, the dataset passed in
\* has the same rows, the same columns and the same values as before.
\* ------------------------------------------------------------------------
C26_InputUnchanged ==
    [][(call'.fn \in {"home_page", "events_page"} \cup ReportNames) =>
           transactions' = transactions]_vars

\* A report has aggregated rows of the dataset passed in.
C26_Witness ==
    /\ IsReport
    /\ transactions # <<>>
    /\ ~result.raised
    /\ result.value # <<>>

\* ------------------------------------------------------------------------
\* C28: in every events_page result the amounts of expenses.main ("Ostalnoe"
\* included) plus the amounts of expenses.transfers_and_cash never exceed
\* expenses.total_amount, and equal it whenever every filtered expense amount
\* is a whole number and every filtered expense row has a category.
\* ------------------------------------------------------------------------
C28_PartsWithinTotal ==
    TableCall(call) =>
        LET spent == Expenses(Kept)
            parts == SumEmitted(Main) + SumEmitted(result.value.expenses.transfers_and_cash)
            total == result.value.expenses.total_amount
        IN  /\ parts <= total
            /\ (\A i \in DOMAIN spent :
                    spent[i].amount % Scale = 0 /\ spent[i].category # NaNCategory)
                   => parts = total
\* ------------------------------------------------------------------------
\* Vocabulary of the period nesting
\* ------------------------------------------------------------------------
\* The rows (by position) events_page aggregates for the dataset, the
\* reference date and the card filter of the call, with another period.
Aggregated(period) ==
    LET window == ResolveWindow(call.date, period, NoDate, NoDate)
    IN  {i \in DOMAIN transactions :
            /\ InRangeOK(transactions[i], window.start, window.end)
            /\ call.card_filter # <<>>
                   => matches_card(transactions[i].card, call.card_filter)}

\* The results of events_page for the same call with another period.
ResultsFor(period) ==
    events_page(transactions, world, call.date, period, NoDate, NoDate, call.card_filter)

\* The periods that are to contain a period.
Containing(period) ==
    IF period = "M" THEN {"Y", "ALL"}
    ELSE IF period = "Y" THEN {"ALL"}
    ELSE IF period = "W" THEN {"ALL"}
    ELSE {}

\* The rows and totals of the call's period are within those of period q.
NestedIn(q) ==
    /\ Aggregated(call.period) \subseteq Aggregated(q)
    /\ \A o \in ResultsFor(q) :
           /\ result.value.expenses.total_amount <= o.value.expenses.total_amount
           /\ result.value.income.total_amount <= o.value.income.total_amount

\* The reference date is 2000-01-07 or later.
WeekAfterFloor(date) == date.y > 2000 \/ date.m > 1 \/ date.d >= 7

AtTime(t) == [call.date EXCEPT !.hh = t[1], !.mi = t[2], !.ss = t[3]]

\* The cards and top transactions home_page may return for a date-time.
CardsAndTop(date_time) ==
    {<<o.value.cards, o.value.top_transactions>> :
        o \in home_page(transactions, world, date_time)}

\* The cards and top transactions of the rows from the first second of the
\* month of the call to the last second of its day (none on an empty
\* dataset).
CardsAndTopOfDay ==
    IF transactions = <<>> THEN {<<(<<>>), (<<>>)>>}
    ELSE {<<c, t>> : c \in CardsData(HomeRows), t \in TopTransactions(HomeRows)}

\* ------------------------------------------------------------------------
\* C30: the time of day of home_page's date_time affects only the greeting:
\* on the same dataset and quotes, at any other time of the same day
\* home_page returns the same cards and top_transactions, those of the rows
\* from the first day of the month at 00:00:00 to 23:59:59 of that day.
\* ------------------------------------------------------------------------
C30_TimeOfDay ==
    HomeCall =>
        /\ <<Cards, Top>> \in CardsAndTopOfDay
        /\ \A t \in TimesOfDay :
               /\ CardsAndTop(AtTime(t)) = CardsAndTopOfDay
               /\ \A o \in home_page(transactions, world, AtTime(t)) :
                      /\ o.value.currency_rates = result.value.currency_rates
                      /\ o.value.stock_prices = result.value.stock_prices

\* A call in the morning that counts a row of the evening, with another
\* greeting at another time of the day.
C30_Witness ==
    /\ HomeCall
    /\ call.date.hh = 8
    /\ \E i \in DOMAIN Top : Top[i].description = "t5"
    /\ \E i \in DOMAIN Cards : Cards[i].last_digits = <<"5", "8", "1", "4">>
    /\ \E t \in TimesOfDay : \E o \in home_page(transactions, world, AtTime(t)) :
           o.value.greeting # result.value.greeting

====
